---- MODULE Spec2Model ----
(***************************************************************************)
(* A model of the website analyser (src/src/services/analyzer.js), of the  *)
(* routes that drive it (src/src/routes/analyze.js), of the                *)
(* authentication middleware in front of them, of the CMS client's         *)
(* pushDesign (src/public/enhanced-style-guide.js) and of the browser      *)
(* based analyzeSite (src/unnamed/part_005).                               *)
(*                                                                         *)
(* Strings are TLA+ strings; the string work of the code (regular          *)
(* expression search, split, trim, toLowerCase, startsWith, includes) is   *)
(* computed character by character with Len, SubSeq and \o.                *)
(*                                                                         *)
(* A document is the sequence of its elements in traversal order; an       *)
(* element is a record with its tag, its attributes (a record that has a   *)
(* field for every attribute that is present) and whether it stands below  *)
(* an <svg> element. A comment node has the tag #comment and its text as   *)
(* nodeValue.                                                              *)
(***************************************************************************)
EXTENDS Integers, Sequences, FiniteSets, TLC

VARIABLES
  doc,        \* the document under analysis
  hasChroma,  \* whether the installed chroma-js Color has a chroma() method
  phase,      \* position of the call or handler under study
  colorMap,   \* extractColors: the frequency map, in insertion order
  colors,     \* extractColors: the value returned
  layout,     \* analyzeLayout: the value returned
  typography, \* extractTypography: the value returned
  clock,      \* the system clock, in milliseconds
  results,    \* analyzeWebsite: what each call so far ended with
  analyses,   \* generateStyleGuide: the batch handed in
  guide,      \* generateStyleGuide: what the call ended with
  styleGuide, \* generateStyleGuide: the object it had assembled when it
              \* called generateDocs
  files,      \* the files in the temporary directory
  guideCalls, \* the number of calls of generateStyleGuide
  logged,     \* generateStyleGuide: the messages it and generateDocs have
              \* handed to the logger
  urls,       \* the route: req.body.urls
  promises,   \* the route: the promise of each call of analyzeWebsite
  response,   \* the route: the answer sent
  env,        \* process.env when the server starts
  req,        \* the request: its route, its x-auth-token header, its parameters
  user,       \* req.user as the authentication middleware sets it
  handlerCalls, \* the number of times a route handler has been entered
  rawFamily,  \* normalizeFontFamily: the string handed in
  normalFamily, \* normalizeFontFamily: the value returned
  push,       \* SquidexClientService: its login and the pushDesign under way
  site,       \* analyzeSite: the browser and the position of the call under way
  accessed    \* the route: the calls of fs made by the download handler

vars == << doc, hasChroma, phase, colorMap, colors, layout, typography, clock, results,
           analyses, guide, styleGuide, files, guideCalls, logged, urls, promises, response,
           env, req, user, handlerCalls, rawFamily, normalFamily, push, site, accessed >>

(***************************************************************************)
(* Bounds of the model.                                                    *)
(***************************************************************************)
MaxElems == 4

MaxCalls == 2

MaxClock == 1

MaxBatch == 2

MaxUrls == 2

(***************************************************************************)
(* Strings.                                                                *)
(***************************************************************************)
At(s, i) == SubSeq(s, i, i)

Upper == "ABCDEFGHIJKLMNOPQRSTUVWXYZ"
Lower == "abcdefghijklmnopqrstuvwxyz"

UpperChars == { At(Upper, k) : k \in 1..26 }

LowerChar(c) ==
  IF c \in UpperChars THEN At(Lower, CHOOSE k \in 1..26 : At(Upper, k) = c) ELSE c

RECURSIVE toLowerCase(_)
toLowerCase(s) ==
  IF Len(s) = 0 THEN "" ELSE LowerChar(At(s, 1)) \o toLowerCase(SubSeq(s, 2, Len(s)))

IsSpace(c) == c \in {" ", "\t", "\n"}

RECURSIVE TrimLeft(_)
TrimLeft(s) ==
  IF Len(s) > 0 /\ IsSpace(At(s, 1)) THEN TrimLeft(SubSeq(s, 2, Len(s))) ELSE s

RECURSIVE TrimRight(_)
TrimRight(s) ==
  IF Len(s) > 0 /\ IsSpace(At(s, Len(s))) THEN TrimRight(SubSeq(s, 1, Len(s) - 1)) ELSE s

trim(s) == TrimRight(TrimLeft(s))

startsWith(s, p) == Len(p) <= Len(s) /\ SubSeq(s, 1, Len(p)) = p

\* The positions at which p occurs in s.
Occurrences(s, p) ==
  { i \in 1..(Len(s) - Len(p) + 1) : SubSeq(s, i, i + Len(p) - 1) = p }

includes(s, p) == Len(p) = 0 \/ Occurrences(s, p) # {}

Min(S) == CHOOSE x \in S : \A y \in S : x <= y

\* The end of the longest run, starting at position i, of characters of s
\* that are in S (i - 1 when there is none).
RECURSIVE RunEndIn(_, _, _)
RunEndIn(s, i, S) ==
  IF i <= Len(s) /\ At(s, i) \in S THEN RunEndIn(s, i + 1, S) ELSE i - 1

\* The same for the characters that are not in S.
RECURSIVE RunEndNotIn(_, _, _)
RunEndNotIn(s, i, S) ==
  IF i <= Len(s) /\ At(s, i) \notin S THEN RunEndNotIn(s, i + 1, S) ELSE i - 1

Spaces == {" ", "\t", "\n"}

\* String.prototype.split(/\s+/): the maximal runs of non-space characters,
\* with an empty first (last) piece when the string starts (ends) with space
\* and the single piece "" for the empty string.
RECURSIVE SplitFrom(_, _)
SplitFrom(s, i) ==
  LET e == RunEndNotIn(s, i, Spaces)
      n == RunEndIn(s, e + 1, Spaces)
  IN  IF e = Len(s) THEN << SubSeq(s, i, e) >>
      ELSE << SubSeq(s, i, e) >> \o SplitFrom(s, n + 1)

splitSpaces(s) == SplitFrom(s, 1)

(***************************************************************************)
(* Sequences.                                                              *)
(***************************************************************************)
Range(q) == { q[i] : i \in 1..Len(q) }

slice(q, from, to) ==   \* Array.prototype.slice(from, to), zero-based, to excluded
  SubSeq(q, from + 1, IF to < Len(q) THEN to ELSE Len(q))

RECURSIVE Flatten(_)
Flatten(qq) == IF qq = <<>> THEN <<>> ELSE Head(qq) \o Flatten(Tail(qq))

RemoveAt(q, i) == SubSeq(q, 1, i - 1) \o SubSeq(q, i + 1, Len(q))

\* All sequences over S of length at most n.
SeqsUpTo(S, n) == UNION { [1..k -> S] : k \in 0..n }

(***************************************************************************)
(* A Map in insertion order: a sequence of [key, count] entries with       *)
(* distinct keys.                                                          *)
(***************************************************************************)
mapHas(m, k) == \E i \in 1..Len(m) : m[i].key = k

mapGet(m, k) ==   \* map.get(k) || 0
  IF mapHas(m, k) THEN m[CHOOSE i \in 1..Len(m) : m[i].key = k].count ELSE 0

\* map.set(k, n): a present key keeps its place.
mapSet(m, k, n) ==
  IF mapHas(m, k)
  THEN [ i \in 1..Len(m) |-> IF m[i].key = k THEN [key |-> k, count |-> n] ELSE m[i] ]
  ELSE Append(m, [key |-> k, count |-> n])

\* A slip: map.set(k, n), which forgets the count the key already has.
mapAddForgets(m, k, n) == mapSet(m, k, n)

\* map.set(k, (map.get(k) || 0) + n).
mapAdd(m, k, n) == mapSet(m, k, mapGet(m, k) + n)

RECURSIVE mapAddAll(_, _, _)
mapAddAll(m, ks, n) ==
  IF ks = <<>> THEN m ELSE mapAddAll(mapAdd(m, Head(ks), n), Tail(ks), n)

mapKeys(m) == [ i \in 1..Len(m) |-> m[i].key ]

\* [...map.entries()].sort((a, b) => b[1] - a[1]): descending count, and the
\* sort is stable, so entries of equal count keep their insertion order.
RECURSIVE sortByCount(_)
sortByCount(m) ==
  IF m = <<>> THEN <<>>
  ELSE LET i == CHOOSE i \in 1..Len(m) :
                  /\ \A j \in 1..Len(m) : m[j].count <= m[i].count
                  /\ \A j \in 1..(i - 1) : m[j].count < m[i].count
       IN  << m[i] >> \o sortByCount(RemoveAt(m, i))

(***************************************************************************)
(* The document tree.                                                      *)
(***************************************************************************)
hasAttr(el, name) == name \in DOMAIN el.attrs

\* The elements the model's documents are made of.
Elements ==
  << [tag |-> "p",    svg |-> FALSE, attrs |-> [style |-> "color: #ff0000"]],
     [tag |-> "p",    svg |-> FALSE, attrs |-> [style |-> "color:#ff0101"]],
     [tag |-> "div",  svg |-> FALSE,
      attrs |-> [style |-> "background-color: #ffffff; color: #cc0000"]],
     [tag |-> "div",  svg |-> FALSE,
      attrs |-> [style |-> "color: #b30000; border: 1px solid #ccc"]],
     [tag |-> "div",  svg |-> FALSE,
      attrs |-> [style |-> "color: #0000ff; background: #f8f9fa; border-color: #28a745; fill: #000000"]],
     [tag |-> "path", svg |-> TRUE,  attrs |-> [fill |-> "red", stroke |-> "Transparent"]],
     [tag |-> "a",    svg |-> FALSE, attrs |-> [class |-> "btn btn-primary text-white"]],
     [tag |-> "span", svg |-> FALSE,
      attrs |-> [class |-> "badge-secondary", style |-> "color: inherit"]],
     [tag |-> "div",  svg |-> FALSE, attrs |-> [class |-> "container"]],
     [tag |-> "div",  svg |-> FALSE, attrs |-> [class |-> "row"]],
     [tag |-> "div",  svg |-> FALSE, attrs |-> [class |-> "col card"]],
     [tag |-> "nav",  svg |-> FALSE, attrs |-> [class |-> "navbar", id |-> "top"]],
     [tag |-> "section", svg |-> FALSE,
      attrs |-> [class |-> "flex grid p-4 m-2 w-full h-8 bg-white text-sm",
                 style |-> "display: flex; position: relative"]],
     [tag |-> "link", svg |-> FALSE,
      attrs |-> [rel |-> "stylesheet",
                 href |-> "https://cdn.jsdelivr.net/npm/bootstrap@5.3.0/dist/css/bootstrap.min.css"]],
     [tag |-> "link", svg |-> FALSE,
      attrs |-> [rel |-> "stylesheet",
                 href |-> "https://fonts.googleapis.com/css2?family=Roboto&display=swap"]],
     [tag |-> "link", svg |-> FALSE,
      attrs |-> [rel |-> "stylesheet",
                 href |-> "https://fonts.googleapis.com/css?family=Open+Sans:400,700"]],
     [tag |-> "link", svg |-> FALSE,
      attrs |-> [rel |-> "preconnect", href |-> "https://fonts.googleapis.com"]],
     [tag |-> "link", svg |-> FALSE,
      attrs |-> [rel |-> "stylesheet",
                 href |-> "https://fonts.googleapis.com/css2?family=Oswald&family=Lato"]],
     [tag |-> "h1",   svg |-> FALSE,
      attrs |-> [style |-> "font-family: 'Roboto', sans-serif; font-size: 2rem"]],
     [tag |-> "p",    svg |-> FALSE,
      attrs |-> [style |-> "Font-Family: \"Helvetica Neue\" ; font-weight: bold; line-height: 1.5"]],
     [tag |-> "h2",   svg |-> FALSE,
      attrs |-> [class |-> "fw-bold fs-3 text-uppercase display-4"]],
     [tag |-> "#comment", svg |-> FALSE, attrs |-> [nodeValue |-> " Bootstrap v4.5.2 "]],
     [tag |-> "link", svg |-> FALSE,
      attrs |-> [rel |-> "stylesheet",
                 href |-> "https://static.example.com/css/bootstrap.css?ver=5.3"]] >>

(***************************************************************************)
(* chroma-js, for the colour strings that occur in the model's documents.  *)
(* Palette lists them in canonical form; DeltaETable holds chroma.deltaE   *)
(* (CIEDE2000, clipped to 0..100) in hundredths, LuminanceTable holds      *)
(* Color.luminance() in ten-thousandths and ChromaTable the LCh chroma in  *)
(* hundredths, all rounded down. Any other string (a symbolic reference    *)
(* such as var(--primary), a compound value such as 1px solid #ccc, the    *)
(* empty string) is one that chroma() refuses with an exception.           *)
(***************************************************************************)
Palette ==
  << "#ff0000", "#ff0101", "#cc0000", "#b30000", "#0000ff", "#ffffff", "#f8f9fa", "#000000", "#28a745" >>

PaletteColors == Range(Palette)

NamedColors == [ red |-> "#ff0000", white |-> "#ffffff", black |-> "#000000", blue |-> "#0000ff" ]

DeltaETable ==
  <<
     <<     0,     8,  1099,  1604,  5288,  4581,  4537,  5041,  7348 >>,
     <<     8,     0,  1101,  1606,  5283,  4578,  4534,  5041,  7350 >>,
     <<  1099,  1101,     0,   506,  4879,  5286,  5229,  4201,  7223 >>,
     <<  1604,  1606,   506,     0,  4741,  5720,  5659,  3820,  7196 >>,
     <<  5288,  5283,  4879,  4741,     0,  6423,  6108,  3968,  6459 >>,
     <<  4581,  4578,  5286,  5720,  6423,     0,   137, 10000,  3847 >>,
     <<  4537,  4534,  5229,  5659,  6108,   137,     0,  9752,  3802 >>,
     <<  5041,  5041,  4201,  3820,  3968, 10000,  9752,     0,  5403 >>,
     <<  7348,  7350,  7223,  7196,  6459,  3847,  3802,  5403,     0 >>
  >>

LuminanceTable ==
  << 2126, 2128, 1283, 958, 722, 10000, 9460, 0, 2851 >>

ChromaTable ==
  << 10455, 10434, 8836, 8013, 13380, 0, 61, 0, 6780 >>

\* The canonical form of a colour string, "" when chroma() throws on it.
canonical(color) ==
  IF color \in PaletteColors THEN color
  ELSE LET low == toLowerCase(color)
       IN  IF low \in PaletteColors THEN low
           ELSE IF low \in DOMAIN NamedColors THEN NamedColors[low]
           ELSE ""

parses(color) == canonical(color) # ""

paletteIndex(color) == CHOOSE i \in 1..Len(Palette) : Palette[i] = canonical(color)

Throws == -1

\* chroma.deltaE(a, b) in hundredths; Throws when either string does not parse.
deltaE(a, b) ==
  IF parses(a) /\ parses(b) THEN DeltaETable[paletteIndex(a)][paletteIndex(b)] ELSE Throws

\* chroma(color).luminance() in ten-thousandths, for a string that parses.
luminance(color) == LuminanceTable[paletteIndex(color)]

\* chroma(color).chroma() in hundredths; Throws when the installed Color has
\* no such method (the calls stand inside try blocks).
chromaOf(color) == IF hasChroma THEN ChromaTable[paletteIndex(color)] ELSE Throws

(***************************************************************************)
(* extractColors.                                                          *)
(***************************************************************************)
colorProperties ==
  << "color", "background-color", "border-color", "background", "border",
     "box-shadow", "fill", "stroke" >>

\* style.match(new RegExp(`${prop}:\\s*([^;]+)`, 'i')): the first group of
\* the leftmost match, "" when the expression does not match. The search is
\* over the whole style text and ignores case; \s* is greedy and gives one
\* space back when nothing else is left for the group.
styleMatch(style, prop) ==
  LET low == toLowerCase(style)
      pat == prop \o ":"
      Group(p) ==
        LET q == RunEndIn(style, p, Spaces) + 1
            e == RunEndNotIn(style, q, {";"})
        IN  IF e >= q THEN SubSeq(style, q, e)
            ELSE IF q > p THEN SubSeq(style, q - 1, q - 1)
            ELSE ""
      hits == { i \in Occurrences(low, pat) : Group(i + Len(pat)) # "" }
  IN  IF hits = {} THEN "" ELSE Group(Min(hits) + Len(pat))

ExcludedValues == {"transparent", "inherit", "initial", "currentcolor", "none"}

\* A slip: every value taken for a colour.
isValidColorAny(color) == TRUE

isValidColor(color) ==
  IF toLowerCase(color) \in ExcludedValues THEN FALSE ELSE parses(color)

\* The colours one [style] element adds, one per scanned property, in the
\* order of colorProperties.
RECURSIVE inlineColorsFrom(_, _)
inlineColorsFrom(style, k) ==
  IF k > Len(colorProperties) THEN <<>>
  ELSE LET m == styleMatch(style, colorProperties[k])
           color == trim(m)
       IN  (IF m # "" /\ isValidColor(color) THEN << color >> ELSE <<>>)
             \o inlineColorsFrom(style, k + 1)

inlineColors(el) ==
  IF hasAttr(el, "style") THEN inlineColorsFrom(el.attrs.style, 1) ELSE <<>>

\* The colours one element matched by 'svg [fill], svg [stroke]' adds.
svgAttrColor(el, name) ==
  IF /\ hasAttr(el, name)
     /\ el.attrs[name] # ""
     /\ el.attrs[name] # "none"
     /\ el.attrs[name] # "transparent"
     /\ isValidColor(el.attrs[name])
  THEN << el.attrs[name] >> ELSE <<>>

svgColors(el) ==
  IF el.svg /\ (hasAttr(el, "fill") \/ hasAttr(el, "stroke"))
  THEN svgAttrColor(el, "fill") \o svgAttrColor(el, "stroke")
  ELSE <<>>

colorClasses ==
  << "bg-", "text-", "border-", "btn-", "alert-", "badge-", "table-", "navbar-",
     "list-group-item-" >>

colorNames ==
  { "primary", "secondary", "success", "danger", "warning", "info", "light",
    "dark", "white", "black", "transparent", "blue", "indigo", "purple", "pink",
    "red", "orange", "yellow", "green", "teal", "cyan", "gray", "grey" }

\* The symbolic references one class name adds, one per matching prefix.
RECURSIVE classNameColors(_, _)
classNameColors(className, k) ==
  IF k > Len(colorClasses) THEN <<>>
  ELSE LET prefix == colorClasses[k]
           colorName == SubSeq(className, Len(prefix) + 1, Len(className))
       IN  (IF startsWith(className, prefix) /\ colorName \in colorNames
            THEN << "var(--" \o colorName \o ")" >> ELSE <<>>)
             \o classNameColors(className, k + 1)

RECURSIVE classListColors(_)
classListColors(classes) ==
  IF classes = <<>> THEN <<>>
  ELSE classNameColors(Head(classes), 1) \o classListColors(Tail(classes))

classColors(el) ==
  IF hasAttr(el, "class") THEN classListColors(splitSpaces(el.attrs.class)) ELSE <<>>

\* What the three collectors take from one element.
elementColors(el) ==
  [ inline |-> inlineColors(el), svg |-> svgColors(el), class |-> classColors(el) ]

\* elementColors of every element of the catalogue, computed once.
RECURSIVE elementColorsUpTo(_)
elementColorsUpTo(k) ==
  IF k = 0 THEN <<>> ELSE Append(elementColorsUpTo(k - 1), elementColors(Elements[k]))

ElementColors == elementColorsUpTo(Len(Elements))

colorsOf(el) == ElementColors[CHOOSE i \in 1..Len(Elements) : Elements[i] = el]

\* The keys counted by the three passes over the document, in the order in
\* which the code counts them.
RECURSIVE inlinePass(_)
inlinePass(d) == IF d = <<>> THEN <<>> ELSE colorsOf(Head(d)).inline \o inlinePass(Tail(d))

RECURSIVE svgPass(_)
svgPass(d) == IF d = <<>> THEN <<>> ELSE colorsOf(Head(d)).svg \o svgPass(Tail(d))

RECURSIVE classPass(_)
classPass(d) == IF d = <<>> THEN <<>> ELSE colorsOf(Head(d)).class \o classPass(Tail(d))

\* The frequency map when the three collectors are through.
collectColors(d) == mapAddAll(<<>>, inlinePass(d) \o svgPass(d) \o classPass(d), 1)

threshold == 15   \* 0.15, in hundredths

\* A slip: the distance compared with the ratio 0.15 itself, not with 15.
isSimilarUnscaled(color, uniqueColors) ==
  \E i \in 1..Len(uniqueColors) :
     LET delta == deltaE(color, uniqueColors[i])
     IN  delta # Throws /\ delta < threshold

\* A slip: a comparison that throws taken for a near-duplicate.
isSimilarOrThrows(color, uniqueColors) ==
  \E i \in 1..Len(uniqueColors) :
     LET delta == deltaE(color, uniqueColors[i])
     IN  delta = Throws \/ delta < threshold * 100

\* uniqueColors.some(existing => deltaE(color, existing) < threshold * 100),
\* an exception of deltaE counting as "not similar".
isSimilar(color, uniqueColors) ==
  \E i \in 1..Len(uniqueColors) :
     LET delta == deltaE(color, uniqueColors[i])
     IN  delta # Throws /\ delta < threshold * 100

RECURSIVE dedupe(_, _)
dedupe(entries, uniqueColors) ==
  IF entries = <<>> THEN uniqueColors
  ELSE dedupe(Tail(entries),
              IF isSimilar(Head(entries).key, uniqueColors)
              THEN uniqueColors
              ELSE Append(uniqueColors, Head(entries).key))

\* A slip: the candidates walked in the order in which they were first seen.
processColorsUnsorted(m) == dedupe(m, <<>>)

processColors(m) == dedupe(sortByCount(m), <<>>)

sortedColors(m) == SelectSeq(mapKeys(sortByCount(m)), parses)

primaryOf(sorted) == slice(sorted, 0, 3)

\* A slip: the next three taken without leaving out the primary colours.
secondaryOfUnfiltered(sorted, primary) == slice(sorted, 0, 3)

secondaryOf(sorted, primary) ==
  LET NotPrimary(color) == color \notin Range(primary)
  IN  slice(SelectSeq(sorted, NotPrimary), 0, 3)

accentOf(sorted, primary, secondary) ==
  LET Vibrant(color) ==
        /\ color \notin Range(primary)
        /\ color \notin Range(secondary)
        /\ chromaOf(color) # Throws
        /\ chromaOf(color) > 5000
  IN  slice(SelectSeq(sorted, Vibrant), 0, 3)

neutralOf(sorted) ==
  LET Neutral(color) ==
        /\ chromaOf(color) # Throws
        /\ chromaOf(color) < 3000
        /\ (luminance(color) > 7000 \/ luminance(color) < 3000)
  IN  slice(SelectSeq(sorted, Neutral), 0, 4)

\* extractColors from the point where the frequency map is complete.
categorize(m) ==
  LET sorted    == sortedColors(m)
      primary   == primaryOf(sorted)
      secondary == secondaryOf(sorted, primary)
  IN  [ primary   |-> primary,
        secondary |-> secondary,
        accent    |-> accentOf(sorted, primary, secondary),
        neutral   |-> neutralOf(sorted),
        all       |-> processColors(m) ]

extractColors(d) == categorize(collectColors(d))

(***************************************************************************)
(* analyzeLayout.                                                          *)
(***************************************************************************)
\* Whether an element is matched by one of the selectors the analyser uses:
\* .name (a class token), tag, [attr*="text"] (the attribute contains the
\* text), [attr="text"] (the attribute is the text), and a tag followed by
\* one of the attribute forms.
matchesSelector(el, selector) ==
  IF startsWith(selector, ".")
  THEN /\ hasAttr(el, "class")
       /\ SubSeq(selector, 2, Len(selector)) \in Range(splitSpaces(el.attrs.class))
  ELSE LET open     == RunEndNotIn(selector, 1, {"["}) + 1
           nameEnd  == RunEndNotIn(selector, open + 1, {"*", "="})
           name     == SubSeq(selector, open + 1, nameEnd)
           contains == At(selector, nameEnd + 1) = "*"
           text     == SubSeq(selector, nameEnd + (IF contains THEN 4 ELSE 3),
                              Len(selector) - 2)
       IN  /\ open = 1 \/ el.tag = SubSeq(selector, 1, open - 1)
           /\ open > Len(selector)
                 \/ /\ hasAttr(el, name)
                    /\ IF contains THEN includes(el.attrs[name], text)
                       ELSE el.attrs[name] = text

layoutPatterns ==
  << [name |-> "containers",
      selectors |-> << "[class*=\"container\"]", "[class*=\"wrapper\"]",
                       "[class*=\"content\"]", "main", "section", "article" >>],
     [name |-> "grids",
      selectors |-> << "[class*=\"grid\"]", "[class*=\"row\"]", "[class*=\"cols\"]",
                       "[class*=\"columns\"]", "[style*=\"display: grid\"]",
                       "[style*=\"display:grid\"]" >>],
     [name |-> "flexContainers",
      selectors |-> << "[class*=\"flex\"]", "[class*=\"d-flex\"]",
                       "[style*=\"display: flex\"]", "[style*=\"display:flex\"]" >>],
     [name |-> "responsiveLayouts",
      selectors |-> << "[class*=\"col-\"]", "[class*=\"sm-\"]", "[class*=\"md-\"]",
                       "[class*=\"lg-\"]", "[class*=\"xl-\"]", "[class*=\"mobile-\"]",
                       "[class*=\"tablet-\"]", "[class*=\"desktop-\"]" >>],
     [name |-> "positioning",
      selectors |-> << "[style*=\"position: absolute\"]", "[style*=\"position:absolute\"]",
                       "[style*=\"position: relative\"]", "[style*=\"position:relative\"]",
                       "[style*=\"position: fixed\"]", "[style*=\"position:fixed\"]",
                       "[style*=\"position: sticky\"]", "[style*=\"position:sticky\"]" >>],
     [name |-> "zIndex",
      selectors |-> << "[style*=\"z-index:\"]" >>] >>

cssFrameworks ==
  << [name |-> "bootstrap",
      selectors |-> << ".container", ".row", ".col", ".navbar", ".card", ".btn",
                       ".alert", ".badge" >>],
     [name |-> "tailwind",
      selectors |-> << "[class*=\"flex\"]", "[class*=\"grid\"]", "[class*=\"text-\"]",
                       "[class*=\"bg-\"]", "[class*=\"p-\"]", "[class*=\"m-\"]",
                       "[class*=\"w-\"]", "[class*=\"h-\"]" >>],
     [name |-> "foundation",
      selectors |-> << ".grid-container", ".grid-x", ".cell", ".button", ".callout",
                       ".top-bar" >>],
     [name |-> "bulma",
      selectors |-> << ".container", ".columns", ".column", ".navbar", ".button",
                       ".notification", ".box" >>],
     [name |-> "materialize",
      selectors |-> << ".container", ".row", ".col", ".card", ".btn", ".navbar",
                       ".sidenav" >>] >>

componentSelectors ==
  << [name |-> "buttons",
      selectors |-> << "button", ".btn", "[class*=\"button\"]", "[type=\"button\"]",
                       "[type=\"submit\"]" >>],
     [name |-> "forms",      selectors |-> << "form" >>],
     [name |-> "inputs",     selectors |-> << "input", "textarea", "select" >>],
     [name |-> "navigation", selectors |-> << "nav", "[class*=\"nav\"]", "[class*=\"menu\"]" >>],
     [name |-> "cards",      selectors |-> << "[class*=\"card\"]" >>],
     [name |-> "modals",     selectors |-> << "[class*=\"modal\"]", "[class*=\"dialog\"]" >>],
     [name |-> "tables",     selectors |-> << "table" >>],
     [name |-> "lists",      selectors |-> << "ul", "ol" >>],
     [name |-> "images",     selectors |-> << "img" >>],
     [name |-> "icons",      selectors |-> << "i", "[class*=\"icon\"]" >>],
     [name |-> "headers",    selectors |-> << "header", "[class*=\"header\"]" >>],
     [name |-> "footers",    selectors |-> << "footer", "[class*=\"footer\"]" >>],
     [name |-> "sidebars",
      selectors |-> << "aside", "[class*=\"sidebar\"]", "[class*=\"side-bar\"]" >>] >>

AllSelectors ==
  UNION { Range(layoutPatterns[i].selectors) : i \in 1..Len(layoutPatterns) }
    \cup UNION { Range(cssFrameworks[i].selectors) : i \in 1..Len(cssFrameworks) }
    \cup UNION { Range(componentSelectors[i].selectors) : i \in 1..Len(componentSelectors) }

\* The selectors that match each element of the catalogue, computed once.
RECURSIVE elementSelectorsUpTo(_)
elementSelectorsUpTo(k) ==
  IF k = 0 THEN <<>>
  ELSE Append(elementSelectorsUpTo(k - 1),
              { sel \in AllSelectors : matchesSelector(Elements[k], sel) })

ElementSelectors == elementSelectorsUpTo(Len(Elements))

selectorsOf(el) == ElementSelectors[CHOOSE i \in 1..Len(Elements) : Elements[i] = el]

\* $(selector): the positions in the document of the elements it matches.
select(d, selector) == { i \in 1..Len(d) : selector \in selectorsOf(d[i]) }

\* A slip: the percentage cut off, not rounded.
roundPercentTruncated(matchCount, totalSelectors) == (100 * matchCount) \div totalSelectors

\* Math.round((matchCount / totalSelectors) * 100): halves round up.
roundPercent(matchCount, totalSelectors) ==
  (200 * matchCount + totalSelectors) \div (2 * totalSelectors)

matchCountOf(d, selectors) ==
  Cardinality({ k \in 1..Len(selectors) : select(d, selectors[k]) # {} })

Digits == {"0", "1", "2", "3", "4", "5", "6", "7", "8", "9"}

\* href.match(/(\d+\.\d+(\.\d+)?)/): the first group of the leftmost match,
\* "" when there is none.
versionMatch(href) ==
  LET Dot(i) == i <= Len(href) /\ At(href, i) = "."    \* a dot stands at i
      EndAt(i) ==    \* the end of the match that starts at i, 0 when none does
        LET e1 == RunEndIn(href, i, Digits)
            e2 == RunEndIn(href, e1 + 2, Digits)
            e3 == RunEndIn(href, e2 + 2, Digits)
        IN  IF e1 < i \/ ~Dot(e1 + 1) \/ e2 < e1 + 2 THEN 0
            ELSE IF Dot(e2 + 1) /\ e3 >= e2 + 2 THEN e3
            ELSE e2
      starts == { i \in 1..Len(href) : EndAt(i) > 0 }
  IN  IF starts = {} THEN "" ELSE SubSeq(href, Min(starts), EndAt(Min(starts)))

isStylesheetLink(el) == matchesSelector(el, "link[rel=\"stylesheet\"]")

NoVersion == "null"

\* The version after the loop over $('link[rel="stylesheet"]'): every link
\* whose URL names the framework and carries a version number overwrites it.
RECURSIVE linkVersion(_, _, _)
linkVersion(d, frameworkName, version) ==
  IF d = <<>> THEN version
  ELSE LET el == Head(d)
           href == IF hasAttr(el, "href") THEN el.attrs.href ELSE ""
           found == IF isStylesheetLink(el) /\ includes(toLowerCase(href), frameworkName)
                    THEN versionMatch(href) ELSE ""
       IN  linkVersion(Tail(d), frameworkName, IF found # "" THEN found ELSE version)

\* The type of a node: 8 for a comment, 1 for an element.
nodeType(node) == IF node.tag = "#comment" THEN 8 ELSE 1

\* The first match of /v(\d+\.\d+(\.\d+)?)/ in a text, without the v; ""
\* when there is none.
vVersionMatch(text) ==
  LET After(i) == SubSeq(text, i + 1, Len(text))
      starts == { i \in 1..Len(text) :
                    /\ At(text, i) = "v"
                    /\ versionMatch(After(i)) # ""
                    /\ startsWith(After(i), versionMatch(After(i))) }
  IN  IF starts = {} THEN "" ELSE versionMatch(After(Min(starts)))

\* The version after the search for a comment: $('*:contains("v")')
\* selects the elements whose text contains a v (the universal selector
\* matches no comment), and the filter keeps the nodes of type 8 among them
\* that name the framework and hold a v<major>.<minor>.
commentVersion(d, frameworkName) ==
  LET textOf(node) == IF hasAttr(node, "text") THEN node.attrs.text ELSE ""
      containsV == SelectSeq(d, LAMBDA node :
                                  nodeType(node) = 1 /\ includes(textOf(node), "v"))
      versionComment ==
        SelectSeq(containsV, LAMBDA node :
                               /\ nodeType(node) = 8
                               /\ includes(toLowerCase(node.attrs.nodeValue), frameworkName)
                               /\ vVersionMatch(node.attrs.nodeValue) # "")
  IN  IF Len(versionComment) > 0 /\ vVersionMatch(textOf(versionComment[1])) # ""
      THEN vVersionMatch(textOf(versionComment[1]))
      ELSE NoVersion

detectFramework(d, framework) ==
  LET confidence == roundPercent(matchCountOf(d, framework.selectors),
                                 Len(framework.selectors))
  IN  [ name       |-> framework.name,
        confidence |-> confidence,
        detected   |-> confidence > 30,
        version    |-> linkVersion(d, framework.name, commentVersion(d, framework.name)) ]

\* The union of a pattern's matches: positions, so each element counts once.
patternElements(d, pattern) ==
  UNION { select(d, pattern.selectors[k]) : k \in 1..Len(pattern.selectors) }

RECURSIVE positionsInOrder(_)
positionsInOrder(S) ==
  IF S = {} THEN <<>> ELSE << Min(S) >> \o positionsInOrder(S \ { Min(S) })

exampleOf(el) ==
  [ tag     |-> el.tag,
    classes |-> IF hasAttr(el, "class")
                THEN SelectSeq(splitSpaces(el.attrs.class), LAMBDA c : c # "")
                ELSE <<>>,
    id      |-> IF hasAttr(el, "id") /\ el.attrs.id # "" THEN el.attrs.id ELSE "null",
    children |-> 0 ]

detectPattern(d, pattern) ==
  LET found == positionsInOrder(patternElements(d, pattern))
      first == slice(found, 0, 3)
  IN  [ name     |-> pattern.name,
        count    |-> Len(found),
        examples |-> [ k \in 1..Len(first) |-> exampleOf(d[first[k]]) ] ]

hasClassLike(d, text) == \E i \in 1..Len(d) : hasAttr(d[i], "class") /\ includes(d[i].attrs.class, text)

hasTag(d, tag) == \E i \in 1..Len(d) : d[i].tag = tag

pageStructureOf(d) ==
  [ hasHeader     |-> hasTag(d, "header") \/ hasClassLike(d, "header"),
    hasFooter     |-> hasTag(d, "footer") \/ hasClassLike(d, "footer"),
    hasNavigation |-> hasTag(d, "nav") \/ hasClassLike(d, "nav") \/ hasClassLike(d, "menu"),
    hasSidebar    |-> hasTag(d, "aside") \/ hasClassLike(d, "sidebar") \/ hasClassLike(d, "side-bar"),
    hasMain       |-> hasTag(d, "main"),
    sections      |-> Cardinality({ i \in 1..Len(d) : d[i].tag = "section" }) ]

responsiveOf(d) ==
  [ detected |-> \E i \in 1..Len(d) :
                    d[i].tag = "meta" /\ hasAttr(d[i], "name") /\ d[i].attrs.name = "viewport" ]

analyzeLayout(d) ==
  [ patterns      |-> [ k \in 1..Len(layoutPatterns) |-> detectPattern(d, layoutPatterns[k]) ],
    frameworks    |-> [ k \in 1..Len(cssFrameworks) |-> detectFramework(d, cssFrameworks[k]) ],
    responsive    |-> responsiveOf(d),
    pageStructure |-> pageStructureOf(d) ]

(***************************************************************************)
(* extractTypography.                                                      *)
(***************************************************************************)
\* The rules of fontFamilyPatterns in their order: the text a
\* case-insensitive pattern looks for, and the family it stands for.
fontFamilyPatterns ==
  << <<"arial", "Arial, sans-serif">>,
     <<"helvetica", "Helvetica, Arial, sans-serif">>,
     <<"times new roman", "Times New Roman, serif">>,
     <<"times", "Times, serif">>,
     <<"courier", "Courier, monospace">>,
     <<"verdana", "Verdana, sans-serif">>,
     <<"georgia", "Georgia, serif">>,
     <<"palatino", "Palatino, serif">>,
     <<"garamond", "Garamond, serif">>,
     <<"bookman", "Bookman, serif">>,
     <<"avant garde", "Avant Garde, sans-serif">>,
     <<"trebuchet", "Trebuchet MS, sans-serif">>,
     <<"impact", "Impact, sans-serif">>,
     <<"comic sans", "Comic Sans MS, cursive">>,
     <<"roboto", "Roboto, sans-serif">>,
     <<"open sans", "Open Sans, sans-serif">>,
     <<"lato", "Lato, sans-serif">>,
     <<"montserrat", "Montserrat, sans-serif">>,
     <<"raleway", "Raleway, sans-serif">>,
     <<"poppins", "Poppins, sans-serif">>,
     <<"nunito", "Nunito, sans-serif">>,
     <<"playfair", "Playfair Display, serif">>,
     <<"merriweather", "Merriweather, serif">>,
     <<"ubuntu", "Ubuntu, sans-serif">>,
     <<"source sans", "Source Sans Pro, sans-serif">>,
     <<"source serif", "Source Serif Pro, serif">>,
     <<"source code", "Source Code Pro, monospace">>,
     <<"fira", "Fira Sans, sans-serif">>,
     <<"noto", "Noto Sans, sans-serif">>,
     <<"pt sans", "PT Sans, sans-serif">>,
     <<"pt serif", "PT Serif, serif">>,
     <<"muli", "Muli, sans-serif">>,
     <<"titillium", "Titillium Web, sans-serif">>,
     <<"karla", "Karla, sans-serif">>,
     <<"inter", "Inter, sans-serif">>,
     <<"sans-serif", "sans-serif">>,
     <<"serif", "serif">>,
     <<"monospace", "monospace">>,
     <<"cursive", "cursive">>,
     <<"fantasy", "fantasy">>,
     <<"system-ui", "system-ui">> >>

\* s with every character of S replaced by r.
RECURSIVE replaceChars(_, _, _)
replaceChars(s, S, r) ==
  IF Len(s) = 0 THEN ""
  ELSE (IF At(s, 1) \in S THEN r ELSE At(s, 1)) \o replaceChars(SubSeq(s, 2, Len(s)), S, r)

\* A slip: the rules taken for a set, the last one that matches winning.
normalizeFontFamilyLast(fontFamily) ==
  LET normalized == trim(replaceChars(fontFamily, {"'", "\""}, ""))
      low  == toLowerCase(normalized)
      hits == { k \in 1..Len(fontFamilyPatterns) : includes(low, fontFamilyPatterns[k][1]) }
  IN  IF hits = {} THEN normalized
      ELSE fontFamilyPatterns[CHOOSE k \in hits : \A j \in hits : j <= k][2]

\* Quotes removed and the ends trimmed; then the family of the first rule
\* whose pattern occurs in the name, and the name itself when none does.
normalizeFontFamily(fontFamily) ==
  LET normalized == trim(replaceChars(fontFamily, {"'", "\""}, ""))
      low  == toLowerCase(normalized)
      hits == { k \in 1..Len(fontFamilyPatterns) : includes(low, fontFamilyPatterns[k][1]) }
  IN  IF hits = {} THEN normalized ELSE fontFamilyPatterns[Min(hits)][2]

\* The inline properties scanned and the map each one feeds.
typographyProperties ==
  << <<"font-family", "fontFamilies">>, <<"font-size", "fontSizes">>,
     <<"font-weight", "fontWeights">>, <<"line-height", "lineHeights">>,
     <<"letter-spacing", "letterSpacings">>, <<"text-transform", "textTransforms">>,
     <<"text-decoration", "textDecorations">> >>

signal(map, key, n) == << [map |-> map, key |-> key, n |-> n] >>

\* What one [style] element adds: a signal for each property its style
\* text declares, the family normalized and every other value trimmed.
RECURSIVE inlineSignals(_, _)
inlineSignals(style, k) ==
  IF k > Len(typographyProperties) THEN <<>>
  ELSE LET m == styleMatch(style, typographyProperties[k][1])
           key == IF k = 1 THEN normalizeFontFamily(m) ELSE trim(m)
       IN  (IF m = "" THEN <<>> ELSE signal(typographyProperties[k][2], key, 1))
             \o inlineSignals(style, k + 1)

fontWeightNames ==
  {"light", "normal", "bold", "bolder", "semibold",
   "100", "200", "300", "400", "500", "600", "700", "800", "900"}

fontSizeNames == {"1", "2", "3", "4", "5", "6", "sm", "md", "lg", "xl"}

\* What one class name adds: fw-, fs- and text- utilities.
classNameSignals(className) ==
  LET rest == SubSeq(className, 4, Len(className))
  IN  (IF startsWith(className, "fw-") /\ rest \in fontWeightNames
       THEN signal("fontWeights", rest, 1) ELSE <<>>)
      \o (IF startsWith(className, "fs-") /\ rest \in fontSizeNames
          THEN signal("fontSizes", "var(--fs-" \o rest \o ")", 1) ELSE <<>>)
      \o (IF className \in {"text-uppercase", "text-lowercase", "text-capitalize"}
          THEN signal("textTransforms", SubSeq(className, 6, Len(className)), 1) ELSE <<>>)

RECURSIVE splitOn(_, _)
splitOn(s, c) ==
  LET e == RunEndNotIn(s, 1, {c})
  IN  IF e = Len(s) THEN << s >> ELSE << SubSeq(s, 1, e) >> \o splitOn(SubSeq(s, e + 2, Len(s)), c)

\* $(el).css(prop): the value of the last "name: value" declaration of the
\* style attribute whose name is prop, "" when there is none.
css(el, prop) ==
  LET pieces == IF hasAttr(el, "style") THEN splitOn(el.attrs.style, ";") ELSE <<>>
      Colon(k) == RunEndNotIn(pieces[k], 1, {":"}) + 1
      Declares(k) == /\ Colon(k) > 1
                     /\ Colon(k) < Len(pieces[k])
                     /\ trim(SubSeq(pieces[k], 1, Colon(k) - 1)) = prop
      hits == { k \in 1..Len(pieces) : Declares(k) }
  IN  IF hits = {} THEN ""
      ELSE LET k == CHOOSE k \in hits : \A j \in hits : j <= k
           IN  trim(SubSeq(pieces[k], Colon(k) + 1, Len(pieces[k])))

headingTags == <<"h1", "h2", "h3", "h4", "h5", "h6">>

\* What one heading adds: its level, and the family and size of its style.
headingSignals(el) ==
  LET fontFamily == css(el, "font-family")
      fontSize   == css(el, "font-size")
  IN  signal("fontWeights", "heading-" \o SubSeq(el.tag, 2, 2), 1)
      \o (IF fontFamily # "" THEN signal("fontFamilies", normalizeFontFamily(fontFamily), 1)
          ELSE <<>>)
      \o (IF fontSize # "" THEN signal("fontSizes", fontSize, 1) ELSE <<>>)

\* href.match(/family=([^&:]+)/): the group of the leftmost match, "" when
\* there is none.
familyMatch(href) ==
  LET End(i) == RunEndNotIn(href, i + 7, {"&", ":"})
      hits == { i \in Occurrences(href, "family=") : End(i) >= i + 7 }
  IN  IF hits = {} THEN "" ELSE SubSeq(href, Min(hits) + 7, End(Min(hits)))

\* A slip: a linked font counted like any other signal.
linkSignalsOnce(el) ==
  LET href == IF hasAttr(el, "href") THEN el.attrs.href ELSE ""
      fontMatch == IF includes(href, "fonts.googleapis.com") /\ href # ""
                   THEN familyMatch(href) ELSE ""
  IN  IF fontMatch = "" THEN <<>>
      ELSE signal("fontFamilies", normalizeFontFamily(replaceChars(fontMatch, {"+"}, " ")), 1)

\* What one stylesheet link adds: the family a web-font URL names, ten times.
linkSignals(el) ==
  LET href == IF hasAttr(el, "href") THEN el.attrs.href ELSE ""
      fontMatch == IF includes(href, "fonts.googleapis.com") /\ href # ""
                   THEN familyMatch(href) ELSE ""
  IN  IF fontMatch = "" THEN <<>>
      ELSE signal("fontFamilies", normalizeFontFamily(replaceChars(fontMatch, {"+"}, " ")), 10)

\* The signals of one element in each of the four passes.
elementTypography(el) ==
  [ inline  |-> IF hasAttr(el, "style") THEN inlineSignals(el.attrs.style, 1) ELSE <<>>,
    class   |-> IF hasAttr(el, "class")
                THEN LET classes == splitSpaces(el.attrs.class)
                     IN  Flatten([ k \in 1..Len(classes) |-> classNameSignals(classes[k]) ])
                ELSE <<>>,
    heading |-> IF el.tag \in Range(headingTags) THEN headingSignals(el) ELSE <<>>,
    link    |-> IF isStylesheetLink(el) THEN linkSignals(el) ELSE <<>> ]

RECURSIVE elementTypographyUpTo(_)
elementTypographyUpTo(k) ==
  IF k = 0 THEN <<>>
  ELSE Append(elementTypographyUpTo(k - 1), elementTypography(Elements[k]))

ElementTypography == elementTypographyUpTo(Len(Elements))

typographyOf(el) == ElementTypography[CHOOSE i \in 1..Len(Elements) : Elements[i] = el]

\* The signals of the document in the order the four loops produce them.
typographySignals(d) ==
  Flatten([ i \in 1..Len(d) |-> typographyOf(d[i]).inline ])
    \o Flatten([ i \in 1..Len(d) |-> typographyOf(d[i]).class ])
    \o Flatten([ i \in 1..Len(d) |-> typographyOf(d[i]).heading ])
    \o Flatten([ i \in 1..Len(d) |-> typographyOf(d[i]).link ])

RECURSIVE frequencyMap(_, _, _)
frequencyMap(m, signals, map) ==
  IF signals = <<>> THEN m
  ELSE frequencyMap(IF Head(signals).map = map
                    THEN mapAdd(m, Head(signals).key, Head(signals).n) ELSE m,
                    Tail(signals), map)

sortMapByFrequency(m) ==
  LET sorted == sortByCount(m)
  IN  [ i \in 1..Len(sorted) |-> [value |-> sorted[i].key, count |-> sorted[i].count] ]

extractHeadingStyle(d, selector) ==
  LET n == Cardinality({ i \in 1..Len(d) : d[i].tag = selector })
  IN  IF n = 0 THEN [count |-> 0, null |-> TRUE] ELSE [count |-> n, null |-> FALSE]

extractTypography(d) ==
  LET signals == typographySignals(d)
      Ranked(map) == sortMapByFrequency(frequencyMap(<<>>, signals, map))
  IN  [ fontFamilies    |-> Ranked("fontFamilies"),
        fontSizes       |-> Ranked("fontSizes"),
        fontWeights     |-> Ranked("fontWeights"),
        lineHeights     |-> Ranked("lineHeights"),
        letterSpacings  |-> Ranked("letterSpacings"),
        textTransforms  |-> Ranked("textTransforms"),
        textDecorations |-> Ranked("textDecorations"),
        headings        |-> [ k \in 1..Len(headingTags) |-> extractHeadingStyle(d, headingTags[k]) ] ]

(***************************************************************************)
(* extractComponents.                                                      *)
(***************************************************************************)
\* The elements of the model carry no text, so the text of an example is "".
extractComponentExamples(d, found) ==
  LET first == slice(found, 0, 3)
  IN  [ k \in 1..Len(first) |->
          LET el == d[first[k]]
          IN  [ tag     |-> el.tag,
                classes |-> IF hasAttr(el, "class")
                            THEN SelectSeq(splitSpaces(el.attrs.class), LAMBDA c : c # "")
                            ELSE <<>>,
                id      |-> IF hasAttr(el, "id") THEN el.attrs.id ELSE "",
                text    |-> "" ] ]

extractComponents(d) ==
  [ k \in 1..Len(componentSelectors) |->
      LET found == positionsInOrder(patternElements(d, componentSelectors[k]))
      IN  [ name     |-> componentSelectors[k].name,
            count    |-> Len(found),
            examples |-> extractComponentExamples(d, found) ] ]

(***************************************************************************)
(* analyzeWebsite.  The clock counts the milliseconds since ClockStart.    *)
(***************************************************************************)
DigitChars == "0123456789"

\* The last `width` decimal digits of n, zero-padded.
RECURSIVE padStart(_, _)
padStart(n, width) ==
  IF width = 0 THEN "" ELSE padStart(n \div 10, width - 1) \o At(DigitChars, (n % 10) + 1)

ClockStart == [ date |-> "2024-01-01T00:00:", epochSeconds |-> "1704067200" ]

\* new Date().toISOString() when the clock shows `now` (less than a minute).
toISOString(now) ==
  ClockStart.date \o padStart((now \div 1000) % 60, 2) \o "." \o padStart(now % 1000, 3) \o "Z"

\* String(Date.now()) when the clock shows `now` (less than a second).
dateNow(now) == ClockStart.epochSeconds \o padStart(now % 1000, 3)

\* The value analyzeWebsite returns for a page whose document is d.
analysisOf(url, d, now) ==
  [ url        |-> url,
    colors     |-> extractColors(d),
    typography |-> extractTypography(d),
    components |-> extractComponents(d),
    layout     |-> analyzeLayout(d),
    timestamp  |-> toISOString(now) ]

\* What a call ends with: the value it returns, or the error it throws.
returns(value) == [ ok |-> TRUE, value |-> value ]

throws(message) == [ ok |-> FALSE, value |-> [ message |-> message ] ]

analyzeWebsite(url, d, now, fetched) ==
  IF fetched THEN returns(analysisOf(url, d, now))
  ELSE throws("Failed to analyze website: Network Error")

(***************************************************************************)
(* generateStyleGuide.  The fixed parts of the guide (semantic colours,    *)
(* heading and paragraph defaults, grid, spacing, breakpoints, shadows,    *)
(* borders, animations, the default font-size and line-height scales) and  *)
(* the texts rendered from the palette are the same for every batch and    *)
(* are left out of the record.                                             *)
(***************************************************************************)
\* A slip: >= for >, the last of the highest confidences taken.
RECURSIVE detectedFrameworkOfLast(_, _, _, _)
detectedFrameworkOfLast(frameworks, k, highestConfidence, detectedFramework) ==
  IF k > Len(frameworks) THEN detectedFramework
  ELSE IF frameworks[k].confidence >= highestConfidence
  THEN detectedFrameworkOfLast(frameworks, k + 1, frameworks[k].confidence, frameworks[k].name)
  ELSE detectedFrameworkOfLast(frameworks, k + 1, highestConfidence, detectedFramework)

\* The framework one analysis votes for: the first of the highest
\* confidence, which must exceed 0; "null" when none does.
RECURSIVE detectedFrameworkOf(_, _, _, _)
detectedFrameworkOf(frameworks, k, highestConfidence, detectedFramework) ==
  IF k > Len(frameworks) THEN detectedFramework
  ELSE IF frameworks[k].confidence > highestConfidence
  THEN detectedFrameworkOf(frameworks, k + 1, frameworks[k].confidence, frameworks[k].name)
  ELSE detectedFrameworkOf(frameworks, k + 1, highestConfidence, detectedFramework)

\* The votes of the batch, the analyses without a vote filtered out.
layoutFrameworks(batch) ==
  SelectSeq([ i \in 1..Len(batch) |->
                detectedFrameworkOf(batch[i].layout.frameworks, 1, 0, "null") ],
            LAMBDA name : name # "null")

frameworkCounts(batch) == mapAddAll(<<>>, layoutFrameworks(batch), 1)

\* A slip: a later name of the same count replaces the earlier one.
RECURSIVE recommendedFrameworkOfLast(_, _, _, _)
recommendedFrameworkOfLast(counts, k, maxCount, recommendedFramework) ==
  IF k > Len(counts) THEN recommendedFramework
  ELSE IF counts[k].count >= maxCount
  THEN recommendedFrameworkOfLast(counts, k + 1, counts[k].count, counts[k].key)
  ELSE recommendedFrameworkOfLast(counts, k + 1, maxCount, recommendedFramework)

\* A slip: a default recommended when nobody voted.
recommendedFrameworkOrDefault(counts, k, maxCount, recommendedFramework) ==
  IF counts = <<>> THEN "bootstrap" ELSE (sortByCount(counts)[1]).key

\* The first name whose count exceeds every count before it.
RECURSIVE recommendedFrameworkOf(_, _, _, _)
recommendedFrameworkOf(counts, k, maxCount, recommendedFramework) ==
  IF k > Len(counts) THEN recommendedFramework
  ELSE IF counts[k].count > maxCount
  THEN recommendedFrameworkOf(counts, k + 1, counts[k].count, counts[k].key)
  ELSE recommendedFrameworkOf(counts, k + 1, maxCount, recommendedFramework)

\* A slip: the distinct items in the order met, the counts not consulted.
selectMostCommonUnsorted(items, count) ==
  mapKeys(slice(mapAddAll(<<>>, items, 1), 0, count))

selectMostCommon(items, count) ==
  mapKeys(slice(sortByCount(mapAddAll(<<>>, items, 1)), 0, count))

\* A slip: every entry counted once, whatever its count.
RECURSIVE countObjectsOnce(_, _)
countObjectsOnce(frequency, items) ==
  IF items = <<>> THEN frequency
  ELSE countObjectsOnce(mapSet(frequency, Head(items).value,
                               mapGet(frequency, Head(items).value) + 1), Tail(items))

\* frequency.set(value, (frequency.get(value) || 0) + item.count || 1) for
\* each item, then the `count` most frequent entries.
RECURSIVE countObjects(_, _)
countObjects(frequency, items) ==
  IF items = <<>> THEN frequency
  ELSE LET sum == mapGet(frequency, Head(items).value) + Head(items).count
       IN  countObjects(mapSet(frequency, Head(items).value, IF sum = 0 THEN 1 ELSE sum),
                        Tail(items))

selectMostCommonFromObjects(items, count) ==
  slice(sortMapByFrequency(countObjects(<<>>, items)), 0, count)

\* A slip: every empty pool falls back to `all`, nothing filtered out.
palettePoolsUnfiltered(batch) ==
  LET allColors == Flatten([ i \in 1..Len(batch) |-> batch[i].colors.all ])
      Of(category) == Flatten([ i \in 1..Len(batch) |-> batch[i].colors[category] ])
  IN  [ primary   |-> IF Len(Of("primary")) > 0 THEN Of("primary") ELSE allColors,
        secondary |-> IF Len(Of("secondary")) > 0 THEN Of("secondary")
                      ELSE slice(allColors, 3, Len(allColors)),
        accent    |-> IF Len(Of("accent")) > 0 THEN Of("accent")
                      ELSE slice(allColors, 6, Len(allColors)),
        neutral   |-> IF Len(Of("neutral")) > 0 THEN Of("neutral") ELSE allColors ]

\* The pool each palette category is selected from: the category of every
\* analysis flattened, or its fallback taken from `all` when that is empty.
palettePools(batch) ==
  LET allColors          == Flatten([ i \in 1..Len(batch) |-> batch[i].colors.all ])
      allPrimaryColors   == Flatten([ i \in 1..Len(batch) |-> batch[i].colors.primary ])
      allSecondaryColors == Flatten([ i \in 1..Len(batch) |-> batch[i].colors.secondary ])
      allAccentColors    == Flatten([ i \in 1..Len(batch) |-> batch[i].colors.accent ])
      allNeutralColors   == Flatten([ i \in 1..Len(batch) |-> batch[i].colors.neutral ])
      Extreme(c) == parses(c) /\ (luminance(c) > 8000 \/ luminance(c) < 2000)
  IN  [ primary   |-> IF Len(allPrimaryColors) > 0 THEN allPrimaryColors ELSE allColors,
        secondary |-> IF Len(allSecondaryColors) > 0 THEN allSecondaryColors
                      ELSE slice(allColors, 3, Len(allColors)),
        accent    |-> IF Len(allAccentColors) > 0 THEN allAccentColors
                      ELSE slice(allColors, 6, Len(allColors)),
        neutral   |-> IF Len(allNeutralColors) > 0 THEN allNeutralColors
                      ELSE SelectSeq(allColors, Extreme) ]

colorPalette(batch) ==
  [ primary   |-> selectMostCommon(palettePools(batch).primary, 3),
    secondary |-> selectMostCommon(palettePools(batch).secondary, 3),
    accent    |-> selectMostCommon(palettePools(batch).accent, 2),
    neutral   |-> selectMostCommon(palettePools(batch).neutral, 4) ]

\* chroma(base).luminance(x).hex() for the colours of Palette (rows) and
\* x = 0.95, 0.9, 0.8, 0.7, 0.6, 0.4, 0.3, 0.2, 0.1 (columns): the bisection
\* between the colour and white or black, rounded.
LuminanceRamps ==
  <<
     << "#fff8f8", "#fff0f0", "#ffe0e0", "#ffcece", "#ffbaba", "#ff8686", "#ff5e5e", "#f80000", "#b60000" >>,
     << "#fff8f8", "#fff0f0", "#ffe0e0", "#ffcece", "#ffbaba", "#ff8686", "#ff5e5e", "#f80101", "#b60101" >>,
     << "#fef8f8", "#fcf1f1", "#f9e2e2", "#f6d1d1", "#f2bfbf", "#e99292", "#e37474", "#da4848", "#b60000" >>,
     << "#fdf8f8", "#fbf1f1", "#f7e3e3", "#f2d3d3", "#edc1c1", "#e09696", "#d87b7b", "#cc5555", "#b50707" >>,
     << "#f9f9ff", "#f3f3ff", "#e5e5ff", "#d7d7ff", "#c7c7ff", "#a0a0ff", "#8888ff", "#6868ff", "#3030ff" >>,
     << "#f9f9f9", "#f3f3f3", "#e7e7e7", "#dadada", "#cbcbcb", "#aaaaaa", "#959595", "#7c7c7c", "#595959" >>,
     << "#f9f9fa", "#f3f4f5", "#e6e7e8", "#d9dadb", "#cbcccc", "#a9aaaa", "#949596", "#7b7c7c", "#595959" >>,
     << "#f9f9f9", "#f3f3f3", "#e7e7e7", "#dadada", "#cbcbcb", "#aaaaaa", "#959595", "#7c7c7c", "#595959" >>,
     << "#f5fbf6", "#ebf7ed", "#d4eeda", "#bce4c5", "#a1d9ae", "#5ebd73", "#30aa4c", "#228e3b", "#19672a" >>
  >>

\* A slip: the ramp without its base entry.
shadesOfBaseless(base) ==
  LET row == LuminanceRamps[paletteIndex(base)]
  IN  << [ shade |-> "50",  color |-> row[1] ], [ shade |-> "100", color |-> row[2] ],
         [ shade |-> "200", color |-> row[3] ], [ shade |-> "300", color |-> row[4] ],
         [ shade |-> "400", color |-> row[5] ],
         [ shade |-> "600", color |-> row[6] ], [ shade |-> "700", color |-> row[7] ],
         [ shade |-> "800", color |-> row[8] ], [ shade |-> "900", color |-> row[9] ] >>

\* The object literal of a ramp, its keys in the order Object.entries
\* gives them, for a base colour that parses.
shadesOf(base) ==
  LET row == LuminanceRamps[paletteIndex(base)]
  IN  << [ shade |-> "50",  color |-> row[1] ], [ shade |-> "100", color |-> row[2] ],
         [ shade |-> "200", color |-> row[3] ], [ shade |-> "300", color |-> row[4] ],
         [ shade |-> "400", color |-> row[5] ], [ shade |-> "500", color |-> canonical(base) ],
         [ shade |-> "600", color |-> row[6] ], [ shade |-> "700", color |-> row[7] ],
         [ shade |-> "800", color |-> row[8] ], [ shade |-> "900", color |-> row[9] ] >>

\* The entries of colorShades: none for an empty category, the ramp of
\* the first colour of the category, and {} when chroma() throws on it.
colorShades(palette) ==
  LET Of(type) ==
        IF Len(palette[type]) > 0
        THEN << [ type   |-> type,
                  shades |-> IF parses(palette[type][1]) THEN shadesOf(palette[type][1])
                             ELSE << >> ] >>
        ELSE << >>
  IN  Of("primary") \o Of("secondary")

\* The colour declarations of generateCSSVariables, one per line: the
\* palette colours by category and place, then the shades by ramp and key.
generateCSSVariables(palette, shades) ==
  LET types == << "primary", "secondary", "accent", "neutral" >>
      Colors(t) == [ k \in 1..Len(palette[types[t]]) |->
                       "--color-" \o types[t] \o "-" \o padStart(k, 1) \o ": "
                          \o palette[types[t]][k] \o ";" ]
      Shades(e) == [ k \in 1..Len(e.shades) |->
                       "--color-" \o e.type \o "-" \o e.shades[k].shade \o ": "
                          \o e.shades[k].color \o ";" ]
  IN  Flatten([ t \in 1..Len(types) |-> Colors(t) ])
        \o Flatten([ k \in 1..Len(shades) |-> Shades(shades[k]) ])

componentTypes ==
  << "buttons", "forms", "inputs", "navigation", "cards", "modals", "tables", "lists" >>

RECURSIVE sum(_)
sum(q) == IF q = <<>> THEN 0 ELSE Head(q) + sum(Tail(q))

\* analysis.components[type]?.count || 0 and ?.examples || []: a type the
\* analysis does not have counts 0 and gives no examples.
generateComponentSpecs(batch) ==
  [ t \in 1..Len(componentTypes) |->
      LET Of(i) == SelectSeq(batch[i].components, LAMBDA c : c.name = componentTypes[t])
      IN  [ name     |-> componentTypes[t],
            count    |-> sum(Flatten([ i \in 1..Len(batch) |->
                                         [ k \in 1..Len(Of(i)) |-> Of(i)[k].count ] ])),
            examples |-> slice(Flatten(Flatten([ i \in 1..Len(batch) |->
                                         [ k \in 1..Len(Of(i)) |-> Of(i)[k].examples ] ])), 0, 3) ] ]

\* logger.info(message), logger.error(message): the line handed to the
\* logger.
logger(level, message) == [ level |-> level, message |-> message ]

\* generateDocs(styleGuide): what the call ends with, and the lines it has
\* logged.  It logs on entry.  The object literal then evaluates its
\* markdown first, and generateMarkdownDocs throws on every style guide: the
\* template literal of its line 836 holds ${asset.url} with only the
\* backticks escaped, and there is no asset in scope.  The timestamp, the
\* file name and saveDocsToFile (fs.writeFileSync stores the file or throws,
\* and either is logged) come after it.
generateDocs(docsOf, now, written) ==
  LET entered  == << logger("info", "Generating documentation from style guide") >>
      markdown == throws("asset is not defined")
      filename == "style-guide-docs-" \o dateNow(now) \o ".md"
  IN  IF ~markdown.ok THEN [ logged |-> entered, result |-> markdown ]
      ELSE IF written
      THEN [ logged |-> Append(entered, logger("info", "Documentation saved to /tmp/" \o filename)),
             result |-> returns([ timestamp |-> toISOString(now), filename |-> filename ]) ]
      ELSE [ logged |-> Append(entered,
                               logger("error", "Error saving documentation to file: "
                                       \o "ENOSPC: no space left on device, write")),
             result |-> throws("ENOSPC: no space left on device, write") ]

\* The styleGuide object of generateStyleGuide as it is when generateDocs is
\* called with it.
styleGuideOf(batch) ==
  [ colors        |-> [ palette |-> colorPalette(batch),
                        shades  |-> colorShades(colorPalette(batch)) ],
    typography    |->
      [ fontFamilies   |-> selectMostCommonFromObjects(
                             Flatten([ i \in 1..Len(batch) |-> batch[i].typography.fontFamilies ]), 3),
        fontWeights    |-> selectMostCommonFromObjects(
                             Flatten([ i \in 1..Len(batch) |-> batch[i].typography.fontWeights ]), 3),
        letterSpacings |-> selectMostCommonFromObjects(
                             Flatten([ i \in 1..Len(batch) |-> batch[i].typography.letterSpacings ]), 3),
        textTransforms |-> selectMostCommonFromObjects(
                             Flatten([ i \in 1..Len(batch) |-> batch[i].typography.textTransforms ]), 3) ],
    components    |-> generateComponentSpecs(batch),
    layout        |-> [ recommendedFramework |->
                          recommendedFrameworkOf(frameworkCounts(batch), 1, 0, "null") ],
    cssVariables  |-> generateCSSVariables(colorPalette(batch),
                                           colorShades(colorPalette(batch))) ]

\* The call as a whole: the object assembled, what the call ended with, and
\* the lines logged: one on entry, one before generateDocs, and those of
\* generateDocs.  There is no try around generateDocs, so its error is the
\* error of the call.
generateStyleGuide(batch, now, written) ==
  LET built == styleGuideOf(batch)
      docs == generateDocs(built, now, written)
      documentation == docs.result
      \* styleGuide.documentation = documentation
      documented == [ f \in DOMAIN built \cup {"documentation"} |->
                        IF f = "documentation" THEN documentation.value ELSE built[f] ]
  IN  [ styleGuide |-> built,
        logged     |-> << logger("info", "Generating style guide from " \o ToString(Len(batch))
                                 \o " website analyses"),
                          logger("info", "Generating documentation for style guide") >>
                         \o docs.logged,
        result     |-> IF documentation.ok THEN returns(documented)
                       ELSE documentation ]

(***************************************************************************)
(* POST /api/analyze/multiple.                                             *)
(***************************************************************************)
MaxUrlsAllowed == 5

\* What req.body.urls can be: absent, a value that is no array, an array.
NoUrls == [ type |-> "undefined", items |-> <<>> ]

NotAnArray == [ type |-> "string", items |-> <<>> ]

arrayOf(items) == [ type |-> "array", items |-> items ]

\* A slip: the check of the upper bound left out.
validateNoMax(body) ==
  IF body.type # "array" \/ Len(body.items) = 0
  THEN [ status |-> 400, body |-> [ message |-> "URLs array is required" ] ]
  ELSE [ status |-> 0, body |-> [ message |-> "" ] ]

\* The answer of the two validation checks, 0 when both pass.
validate(body) ==
  IF body.type # "array" \/ Len(body.items) = 0
  THEN [ status |-> 400, body |-> [ message |-> "URLs array is required" ] ]
  ELSE IF Len(body.items) > MaxUrlsAllowed
  THEN [ status |-> 400, body |-> [ message |-> "Maximum 5 URLs allowed" ] ]
  ELSE [ status |-> 0, body |-> [ message |-> "" ] ]

\* A slip: the handler going on as soon as one analysis is there.
promiseAny(ps) ==
  IF \E i \in 1..Len(ps) : ps[i].state = "rejected" THEN "rejected"
  ELSE IF \E i \in 1..Len(ps) : ps[i].state = "fulfilled" THEN "fulfilled"
  ELSE "pending"

\* Promise.all: rejected as soon as one promise is, fulfilled when all are.
promiseAll(ps) ==
  IF \E i \in 1..Len(ps) : ps[i].state = "rejected" THEN "rejected"
  ELSE IF \A i \in 1..Len(ps) : ps[i].state = "fulfilled" THEN "fulfilled"
  ELSE "pending"

\* The reason Promise.all rejects with, that of the promise rejected first:
\* every rejection here carries the same message.
firstRejection(ps) ==
  ps[CHOOSE i \in 1..Len(ps) : ps[i].state = "rejected"].value.message

fulfilledValues(ps) ==
  LET done == SelectSeq(ps, LAMBDA p : p.state = "fulfilled")
  IN  [ i \in 1..Len(done) |-> done[i].value ]

(***************************************************************************)
(* services/auth.js: the authentication middleware.  A token is modelled   *)
(* by what jwt.verify looks at: whether the header is there at all, whether *)
(* its text is a JSON Web Token, the key it was signed with, whether it    *)
(* has expired, and the payload it carries.                                *)
(***************************************************************************)
NoUser == [ username |-> "", role |-> "" ]

Guest == [ username |-> "guest", role |-> "guest" ]

Admin == [ username |-> "admin", role |-> "admin" ]

\* req.header('x-auth-token') when the header is absent.
NoToken == [ kind |-> "undefined", key |-> "", expired |-> FALSE, payload |-> NoUser ]

\* The header present with the empty string.
EmptyToken == [ kind |-> "empty", key |-> "", expired |-> FALSE, payload |-> NoUser ]

\* A header that is no JSON Web Token.
Garbage == [ kind |-> "garbage", key |-> "", expired |-> FALSE, payload |-> Admin ]

\* jwt.sign(payload, key, { expiresIn: '24h' }), looked at before or after
\* the 24 hours.
sign(payload, key, expired) ==
  [ kind |-> "jwt", key |-> key, expired |-> expired, payload |-> payload ]

\* process.env.AUTH_ENABLED === 'true'
isAuthEnabled(e) == e.AUTH_ENABLED = "true"

\* process.env.JWT_SECRET || 'fallback_secret'
secretOf(e) ==
  IF e.JWT_SECRET = "undefined" \/ e.JWT_SECRET = "" THEN "fallback_secret" ELSE e.JWT_SECRET

\* jwt.verify(token, key): the payload, or the exception.
jwtVerify(token, key) ==
  IF token.kind # "jwt" THEN throws("jwt malformed")
  ELSE IF token.key # key THEN throws("invalid signature")
  ELSE IF token.expired THEN throws("jwt expired")
  ELSE returns(token.payload)

\* A slip: the payload decoded without the signature and the expiry checked.
authMiddlewareUnverified(e, token) ==
  IF ~isAuthEnabled(e)
  THEN [ next |-> TRUE, user |-> Guest, status |-> 0, message |-> "" ]
  ELSE IF token.kind \in {"undefined", "empty"}
  THEN [ next |-> FALSE, user |-> NoUser, status |-> 401,
         message |-> "No token, authorization denied" ]
  ELSE [ next |-> TRUE, user |-> token.payload, status |-> 0, message |-> "" ]

\* What the middleware does with a request: whether it calls next(), the
\* req.user it sets, and the answer it sends when it does not call next().
authMiddleware(e, token) ==
  IF ~isAuthEnabled(e)
  THEN [ next |-> TRUE, user |-> Guest, status |-> 0, message |-> "" ]
  ELSE IF token.kind \in {"undefined", "empty"}
  THEN [ next |-> FALSE, user |-> NoUser, status |-> 401,
         message |-> "No token, authorization denied" ]
  ELSE LET decoded == jwtVerify(token, secretOf(e))
       IN  IF decoded.ok
           THEN [ next |-> TRUE, user |-> decoded.value, status |-> 0, message |-> "" ]
           ELSE [ next |-> FALSE, user |-> NoUser, status |-> 401,
                  message |-> "Token is not valid" ]

\* The pieces of a path between its slashes.
RECURSIVE segmentsOf(_)
segmentsOf(path) ==
  LET end == RunEndNotIn(path, 1, {"/"})
  IN  IF end >= Len(path) THEN << path >>
      ELSE << SubSeq(path, 1, end) >> \o segmentsOf(SubSeq(path, end + 2, Len(path)))

\* The segments left of an absolute path: "" and "." dropped, ".." taking
\* the segment before it away.
RECURSIVE resolveSegments(_, _)
resolveSegments(kept, segments) ==
  IF segments = << >> THEN kept
  ELSE LET segment == Head(segments)
       IN  resolveSegments(IF segment \in { "", "." } THEN kept
                           ELSE IF segment = ".."
                           THEN SubSeq(kept, 1, Len(kept) - 1)
                           ELSE Append(kept, segment),
                           Tail(segments))

RECURSIVE joinSegments(_)
joinSegments(segments) ==
  IF segments = << >> THEN "" ELSE "/" \o Head(segments) \o joinSegments(Tail(segments))

\* path.join(dir, name) for an absolute dir: the two joined by a slash and
\* normalized.
pathJoin(dir, name) ==
  LET kept == resolveSegments(<< >>, segmentsOf(dir \o "/" \o name))
  IN  IF kept = << >> THEN "/"
      ELSE joinSegments(kept) \o (IF At(name, Len(name)) = "/" THEN "/" ELSE "")

\* The directories of the machine, and what fs.existsSync says of a path
\* when /tmp holds the files tmp.
Directories == { "/", "/tmp", "/etc" }

existsSync(path, tmp) ==
  path \in Directories \cup { "/etc/passwd" } \cup { "/tmp/" \o tmp[k] : k \in 1..Len(tmp) }

\* The handler of GET /download-docs/:filename, for the files in /tmp: the
\* calls of fs it makes, and the answer it sends before it returns.  For a
\* path that exists it sets the headers, creates the read stream, pipes it
\* to the response and returns without an answer sent (piped): the answer
\* is the work of the stream.
downloadDocs(filename, tmp) ==
  LET filePath == pathJoin("/tmp", filename)
      probe    == << [ call |-> "existsSync", path |-> filePath ] >>
  IN  IF includes(filename, "..") \/ includes(filename, "/")
      THEN [ accessed |-> << >>,
             piped    |-> FALSE,
             response |-> [ status |-> 400,
                            body |-> [ success |-> FALSE, message |-> "Invalid filename" ] ] ]
      ELSE IF ~existsSync(filePath, tmp)
      THEN [ accessed |-> probe,
             piped    |-> FALSE,
             response |-> [ status |-> 404,
                            body |-> [ success |-> FALSE,
                                       message |-> "Documentation file not found" ] ] ]
      ELSE [ accessed |-> Append(probe, [ call |-> "createReadStream", path |-> filePath ]),
             piped    |-> TRUE,
             response |-> [ status |-> 0, body |-> [ message |-> "" ] ] ]

(***************************************************************************)
(* The pages of the analyzeWebsite, generateStyleGuide and route           *)
(* specifications.                                                         *)
(***************************************************************************)
SampleDocs ==
  << << Elements[1], Elements[1], Elements[1], Elements[2],
        Elements[9], Elements[10], Elements[11], Elements[12] >>,
     << Elements[13], Elements[5], Elements[15], Elements[19] >>,
     << Elements[3], Elements[4], Elements[20], Elements[14] >>,
     << Elements[9], Elements[1], Elements[5], Elements[8] >>,
     << Elements[7], Elements[6], Elements[3], Elements[16], Elements[21] >>,
     << >>,
     << Elements[7], Elements[8], Elements[9] >> >>

Urls == << "https://a.example", "https://b.example" >>

\* The document axios and cheerio deliver for a URL.
Web(url) == IF url = Urls[1] THEN SampleDocs[1] ELSE SampleDocs[2]

\* generateStyleGuide is exported, so a caller can also hand it analyses it
\* has put together itself: here two that carry nothing but the primary
\* pools [A, A, B] and [A, C].
assembled(primary) ==
  [ url        |-> "assembled",
    colors     |-> [ primary |-> primary, secondary |-> << >>, accent |-> << >>,
                     neutral |-> << >>, all |-> << >> ],
    typography |-> [ fontFamilies |-> << >>, fontWeights |-> << >>,
                     letterSpacings |-> << >>, textTransforms |-> << >> ],
    components |-> << >>,
    layout     |-> [ frameworks |-> << >> ],
    timestamp  |-> "2024-01-01T00:00:00.000Z" ]

ScenarioE ==
  << assembled(<< "#ff0000", "#ff0000", "#0000ff" >>),
     assembled(<< "#ff0000", "#28a745" >>) >>

\* An analysis put together by the caller that carries nothing but one
\* detected framework, and the batches of four such analyses: every order
\* in which votes for two frameworks can arrive.
voting(name) ==
  [ assembled(<< >>) EXCEPT
      !.layout = [ frameworks |-> << [ name |-> name, confidence |-> 50,
                                       detected |-> TRUE, version |-> NoVersion ] >> ] ]

VoteBatches ==
  [ 1..4 -> { voting("bootstrap"), voting("tailwind") } ]

\* An analysis put together by the caller that carries nothing but font
\* families, two such analyses with a family in common, and one whose
\* entry has the count 0.
typed(fontFamilies) ==
  [ assembled(<< >>) EXCEPT !.typography.fontFamilies = fontFamilies ]

ScenarioF ==
  << typed(<< [ value |-> "Roboto, sans-serif", count |-> 5 ],
              [ value |-> "Arial, sans-serif", count |-> 2 ],
              [ value |-> "Georgia, serif", count |-> 2 ],
              [ value |-> "Lato, sans-serif", count |-> 1 ] >>),
     typed(<< [ value |-> "Lato, sans-serif", count |-> 4 ],
              [ value |-> "Arial, sans-serif", count |-> 3 ],
              [ value |-> "Verdana, sans-serif", count |-> 1 ] >>),
     typed(<< [ value |-> "Courier New, monospace", count |-> 0 ] >>) >>

SampleAnalyses ==
  { analysisOf(Urls[1], SampleDocs[k], 0) : k \in 1..Len(SampleDocs) }
    \cup Range(ScenarioE) \cup Range(ScenarioF)

NoColors ==
  [ primary |-> << >>, secondary |-> << >>, accent |-> << >>, neutral |-> << >>, all |-> << >> ]

NoLayout == [ patterns |-> << >>, frameworks |-> << >> ]

NoTypography == [ fontFamilies |-> << >> ]

NoGuide == [ ok |-> FALSE, value |-> [ message |-> "not called" ] ]

\* The styleGuide of a call that has not been made.
NotAssembled == [ assembled |-> FALSE ]

NoResponse == [ status |-> 0, body |-> [ message |-> "" ] ]

\* A call made without a request: of one of the exported functions.
Direct ==
  /\ env = [ AUTH_ENABLED |-> "undefined", JWT_SECRET |-> "undefined" ]
  /\ req = [ route |-> "none", token |-> NoToken, url |-> "", filename |-> "" ]
  /\ user = NoUser

clientVars == << push, site, accessed >>

NoPush ==
  [ authDisabled |-> FALSE, client |-> "null", isAuthenticated |-> FALSE, init |-> "idle",
    pc |-> "idle", served |-> "null",
    designData |-> [ defined |-> { }, serializable |-> TRUE, buttons |-> 0 ],
    mappingConfig |-> << >>, schema |-> 0, schemaData |-> << >>, item |-> 0,
    items |-> << >>,
    results |-> [ success |-> TRUE, created |-> << >>, updated |-> << >>,
                  failed |-> << >>, errors |-> << >> ] ]

NoSite ==
  [ pc |-> "idle", url |-> "", browser |-> "none", launched |-> 0, closed |-> 0,
    pending |-> [ ok |-> TRUE, value |-> "" ], settled |-> << >> ]

\* No CMS client and no browser in use.
Offline ==
  /\ push = NoPush
  /\ site = NoSite
  /\ accessed = << >>

\* Nothing computed and no answer sent.
Blank ==
  /\ colorMap = << >>
  /\ colors = NoColors
  /\ layout = NoLayout
  /\ typography = NoTypography
  /\ clock = 0
  /\ results = << >>
  /\ guide = NoGuide
  /\ styleGuide = NotAssembled
  /\ promises = << >>
  /\ guideCalls = 0
  /\ logged = << >>
  /\ response = NoResponse
  /\ handlerCalls = 0
  /\ normalFamily = ""

\* The state before any call: nothing computed, nothing written, no answer.
Fresh ==
  /\ phase = "ready"
  /\ Blank
  /\ files = << >>
  /\ rawFamily = ""
  /\ Offline

extractVars == << colorMap, colors, layout, typography >>

guideVars == << analyses, guide, styleGuide, files, guideCalls, logged >>

routeVars == << urls, promises, response >>

authVars == << env, req, user, handlerCalls >>

fontVars == << rawFamily, normalFamily >>

(***************************************************************************)
(* extractColors on documents of up to MaxElems elements, each one of the  *)
(* first eight of the catalogue.                                           *)
(***************************************************************************)
ColorElems == { Elements[i] : i \in 1..8 }

ColorDocs == SeqsUpTo(ColorElems, MaxElems)

InitColors ==
  /\ Fresh
  /\ doc \in ColorDocs
  /\ hasChroma \in BOOLEAN
  /\ analyses = << >>
  /\ urls = NoUrls
  /\ Direct

ExtractColors ==
  /\ phase = "ready"
  /\ phase' = "done"
  /\ colorMap' = collectColors(doc)
  /\ colors' = categorize(colorMap')
  /\ UNCHANGED << doc, hasChroma, clientVars, authVars, fontVars, layout, typography, clock, results, guideVars, routeVars >>

NextColors == ExtractColors

SpecColors == InitColors /\ [][NextColors]_vars

(***************************************************************************)
(* analyzeLayout.                                                          *)
(***************************************************************************)
LayoutElems == { Elements[i] : i \in {7} \cup 9..14 }

\* Pages with a comment that names a framework and its version, alone,
\* and before and after a stylesheet link of the framework; and pages with
\* a link whose URL ends in the version number.
CommentDocs ==
  { << Elements[22] >>, << Elements[22], Elements[9] >>,
    << Elements[22], Elements[14] >>, << Elements[14], Elements[22] >>,
    << Elements[23] >>, << Elements[14], Elements[23] >>, << Elements[23], Elements[14] >> }

LayoutDocs == SeqsUpTo(LayoutElems, MaxElems) \cup CommentDocs

InitLayout ==
  /\ Fresh
  /\ doc \in LayoutDocs
  /\ hasChroma = TRUE
  /\ analyses = << >>
  /\ urls = NoUrls
  /\ Direct

AnalyzeLayout ==
  /\ phase = "ready"
  /\ phase' = "done"
  /\ layout' = analyzeLayout(doc)
  /\ UNCHANGED << doc, hasChroma, clientVars, authVars, fontVars, colorMap, colors, typography, clock, results,
                  guideVars, routeVars >>

NextLayout == AnalyzeLayout

SpecLayout == InitLayout /\ [][NextLayout]_vars

(***************************************************************************)
(* extractTypography.                                                      *)
(***************************************************************************)
TypoElems == { Elements[i] : i \in 14..21 }

TypoDocs == SeqsUpTo(TypoElems, MaxElems)

InitTypo ==
  /\ Fresh
  /\ doc \in TypoDocs
  /\ hasChroma = TRUE
  /\ analyses = << >>
  /\ urls = NoUrls
  /\ Direct

ExtractTypography ==
  /\ phase = "ready"
  /\ phase' = "done"
  /\ typography' = extractTypography(doc)
  /\ UNCHANGED << doc, hasChroma, clientVars, authVars, fontVars, colorMap, colors, layout, clock, results,
                  guideVars, routeVars >>

NextTypo == ExtractTypography

SpecTypo == InitTypo /\ [][NextTypo]_vars

(***************************************************************************)
(* analyzeWebsite, called up to MaxCalls times on one unchanged page       *)
(* while the clock runs.                                                   *)
(***************************************************************************)
InitAnalyze ==
  /\ Fresh
  /\ doc \in Range(SampleDocs)
  /\ hasChroma \in BOOLEAN
  /\ analyses = << >>
  /\ urls = NoUrls
  /\ Direct

Tick ==
  /\ clock < MaxClock
  /\ clock' = clock + 1
  /\ UNCHANGED << doc, hasChroma, clientVars, authVars, fontVars, phase, extractVars, results, guideVars, routeVars >>

AnalyzeWebsite ==
  /\ Len(results) < MaxCalls
  /\ \E fetched \in BOOLEAN :
        results' = Append(results, analyzeWebsite(Urls[1], doc, clock, fetched))
  /\ UNCHANGED << doc, hasChroma, clientVars, authVars, fontVars, phase, extractVars, clock, guideVars, routeVars >>

NextAnalyze == Tick \/ AnalyzeWebsite

SpecAnalyze == InitAnalyze /\ [][NextAnalyze]_vars

(***************************************************************************)
(* generateStyleGuide on batches of up to MaxBatch analyses.               *)
(***************************************************************************)
InitGuide ==
  /\ Fresh
  /\ doc = << >>
  /\ hasChroma \in BOOLEAN
  /\ analyses \in SeqsUpTo(SampleAnalyses, MaxBatch) \cup VoteBatches
  /\ urls = NoUrls
  /\ Direct

\* A slip: the merged primary colours stored into every analysis.
GenerateStyleGuideWritingBack ==
  /\ phase = "ready"
  /\ phase' = "done"
  /\ \E written \in BOOLEAN :
        \E call \in { generateStyleGuide(analyses, clock, written) } :
            /\ styleGuide' = call.styleGuide
            /\ guide' = call.result
            /\ logged' = logged \o call.logged
            /\ files' = IF call.result.ok
                        THEN Append(files, call.result.value.documentation.filename)
                        ELSE files
  /\ guideCalls' = guideCalls + 1
  /\ analyses' = [ i \in 1..Len(analyses) |->
                     [ analyses[i] EXCEPT !.colors.primary = colorPalette(analyses).primary ] ]
  /\ UNCHANGED << doc, hasChroma, clientVars, authVars, fontVars, extractVars, clock, results, routeVars >>

GenerateStyleGuide ==
  /\ phase = "ready"
  /\ phase' = "done"
  /\ \E written \in BOOLEAN :
        \E call \in { generateStyleGuide(analyses, clock, written) } :
            /\ styleGuide' = call.styleGuide
            /\ guide' = call.result
            /\ logged' = logged \o call.logged
            /\ files' = IF call.result.ok
                        THEN Append(files, call.result.value.documentation.filename)
                        ELSE files
  /\ guideCalls' = guideCalls + 1
  /\ UNCHANGED << doc, hasChroma, clientVars, authVars, fontVars, extractVars, clock, results, analyses, routeVars >>

NextGuide == GenerateStyleGuide

SpecGuide == InitGuide /\ [][NextGuide]_vars

(***************************************************************************)
(* POST /api/analyze/multiple: one request.  The calls of analyzeWebsite   *)
(* are started together and end one by one in any order; the handler goes  *)
(* on when Promise.all has settled.                                        *)
(***************************************************************************)
RouteBodies ==
  { NoUrls, NotAnArray }
    \cup { arrayOf(q) : q \in SeqsUpTo(Range(Urls), MaxUrls) }
    \cup { arrayOf([ i \in 1..n |-> Urls[1] ]) : n \in {MaxUrlsAllowed, MaxUrlsAllowed + 1} }

InitRoute ==
  /\ Fresh
  /\ doc = << >>
  /\ hasChroma \in BOOLEAN
  /\ analyses = << >>
  /\ urls \in RouteBodies
  /\ env = [ AUTH_ENABLED |-> "undefined", JWT_SECRET |-> "undefined" ]
  /\ req = [ route |-> "multiple", token |-> NoToken, url |-> "", filename |-> "" ]
  /\ user = Guest

\* The handler up to its await: validation, then every call started.
Receive ==
  /\ phase = "ready"
  /\ req.route = "multiple"
  /\ handlerCalls' = handlerCalls + 1
  /\ IF validate(urls).status # 0
     THEN /\ response' = validate(urls)
          /\ phase' = "done"
          /\ promises' = promises
     ELSE /\ promises' = [ i \in 1..Len(urls.items) |->
                             [ state |-> "pending", value |-> [ message |-> "" ] ] ]
          /\ phase' = "awaiting"
          /\ response' = response
  /\ UNCHANGED << doc, hasChroma, clientVars, env, req, user, fontVars, extractVars, clock, results,
                  guideVars, urls >>

\* The URLs the handler of the request calls analyzeWebsite with.
requested == IF req.route = "single" THEN << req.url >> ELSE urls.items

\* One call of analyzeWebsite ends: its promise is fulfilled or rejected.
Settle ==
  /\ \E i \in 1..Len(promises), fetched \in BOOLEAN :
        /\ promises[i].state = "pending"
        /\ promises' =
             [ promises EXCEPT ![i] =
                 [ state |-> IF fetched THEN "fulfilled" ELSE "rejected",
                   value |-> analyzeWebsite(requested[i], Web(requested[i]),
                                            clock, fetched).value ] ]
  /\ UNCHANGED << doc, hasChroma, clientVars, authVars, fontVars, phase, extractVars, clock, results, guideVars,
                  urls, response >>

\* The handler after its await: the style guide and the answer, or the
\* catch block.
Join ==
  /\ phase = "awaiting"
  /\ req.route = "multiple"
  /\ promiseAll(promises) # "pending"
  /\ phase' = "done"
  /\ IF promiseAll(promises) = "rejected"
     THEN /\ response' = [ status |-> 500,
                           body |-> [ success |-> FALSE,
                                      message |-> firstRejection(promises) ] ]
          /\ UNCHANGED guideVars
     ELSE \E written \in BOOLEAN :
            \E call \in { generateStyleGuide(fulfilledValues(promises), clock, written) } :
            /\ analyses' = fulfilledValues(promises)
            /\ styleGuide' = call.styleGuide
            /\ guide' = call.result
            /\ logged' = logged \o call.logged
            /\ guideCalls' = guideCalls + 1
            /\ files' = IF call.result.ok
                        THEN Append(files, call.result.value.documentation.filename)
                        ELSE files
            /\ response' =
                 IF call.result.ok
                 THEN [ status |-> 200,
                        body |-> [ success |-> TRUE,
                                   data |-> [ analyses |-> analyses',
                                              styleGuide |-> guide'.value ] ] ]
                 ELSE [ status |-> 500,
                        body |-> [ success |-> FALSE, message |-> guide'.value.message ] ]
  /\ UNCHANGED << doc, hasChroma, clientVars, authVars, fontVars, extractVars, clock, results, urls, promises >>

NextRoute == Receive \/ Settle \/ Join \/ Tick

SpecRoute == InitRoute /\ [][NextRoute]_vars

(***************************************************************************)
(* The server on one request to one of the three guarded routes: the       *)
(* authentication middleware first, then, when it calls next(), the        *)
(* handler of the route.                                                   *)
(***************************************************************************)
\* A file of the temporary directory, named as saveDocsToFile names its files.
DocsFile == "style-guide-docs-" \o dateNow(0) \o ".md"

\* The names asked for: the file that is there, a name that is not there, the
\* two dot names, and paths out of /tmp.
Filenames == { DocsFile, "missing.md", ".", "..", "../etc/passwd", "/etc/passwd" }

Environments ==
  [ AUTH_ENABLED : {"undefined", "true", "false"}, JWT_SECRET : {"undefined", "s3cret"} ]

Tokens ==
  { NoToken, EmptyToken, Garbage,
    sign(Admin, "fallback_secret", FALSE),
    sign(Admin, "s3cret", FALSE),
    sign(Admin, "s3cret", TRUE) }

Requests ==
  { [ route |-> "single", token |-> t, url |-> u, filename |-> "" ] :
      t \in Tokens, u \in {"", Urls[1]} }
    \cup { [ route |-> "multiple", token |-> t, url |-> "", filename |-> "" ] : t \in Tokens }
    \cup { [ route |-> "download-docs", token |-> t, url |-> "", filename |-> f ] :
             t \in Tokens, f \in Filenames }

InitServer ==
  /\ phase = "gate"
  /\ Blank
  /\ Offline
  /\ doc = << >>
  /\ hasChroma \in BOOLEAN
  /\ analyses = << >>
  /\ files \in { << >>, << DocsFile >> }
  /\ rawFamily = ""
  /\ user = NoUser
  /\ env \in Environments
  /\ req \in Requests
  /\ urls \in IF req.route = "multiple"
              THEN { NoUrls, arrayOf(<< Urls[1] >>), arrayOf(<< Urls[1], Urls[2] >>) }
              ELSE { NoUrls }

\* authMiddleware(req, res, next)
AuthMiddleware ==
  /\ phase = "gate"
  /\ LET r == authMiddleware(env, req.token)
     IN  IF r.next
         THEN /\ user' = r.user
              /\ phase' = "ready"
              /\ response' = response
         ELSE /\ user' = user
              /\ phase' = "done"
              /\ response' = [ status |-> r.status, body |-> [ message |-> r.message ] ]
  /\ UNCHANGED << doc, hasChroma, clientVars, env, req, handlerCalls, fontVars, extractVars, clock,
                  results, guideVars, urls, promises >>

\* The handler of POST /single up to its await.
Single ==
  /\ phase = "ready"
  /\ req.route = "single"
  /\ handlerCalls' = handlerCalls + 1
  /\ IF req.url = ""
     THEN /\ response' = [ status |-> 400, body |-> [ message |-> "URL is required" ] ]
          /\ phase' = "done"
          /\ promises' = promises
     ELSE /\ promises' = << [ state |-> "pending", value |-> [ message |-> "" ] ] >>
          /\ phase' = "awaiting"
          /\ response' = response
  /\ UNCHANGED << doc, hasChroma, clientVars, env, req, user, fontVars, extractVars, clock, results,
                  guideVars, urls >>

\* The handler of POST /single after its await: the answer, or the catch
\* block.
SingleDone ==
  /\ phase = "awaiting"
  /\ req.route = "single"
  /\ promises[1].state # "pending"
  /\ phase' = "done"
  /\ response' =
       IF promises[1].state = "fulfilled"
       THEN [ status |-> 200, body |-> [ success |-> TRUE, data |-> promises[1].value ] ]
       ELSE [ status |-> 500,
              body |-> [ success |-> FALSE, message |-> promises[1].value.message ] ]
  /\ UNCHANGED << doc, hasChroma, clientVars, authVars, fontVars, extractVars, clock, results,
                  guideVars, urls, promises >>

\* The handler of GET /download-docs/:filename, up to its return.
DownloadDocs ==
  /\ phase = "ready"
  /\ req.route = "download-docs"
  /\ handlerCalls' = handlerCalls + 1
  /\ \E call \in { downloadDocs(req.filename, files) } :
        /\ phase' = IF call.piped THEN "streaming" ELSE "done"
        /\ response' = IF call.piped THEN response ELSE call.response
        /\ accessed' = accessed \o call.accessed
  /\ UNCHANGED << doc, hasChroma, push, site, env, req, user, fontVars, extractVars, clock,
                  results, guideVars, urls, promises >>

\* fileStream.pipe(res), in the turns of the event loop after the handler has
\* returned: the stream of a file is read into the response, which is sent
\* with status 200 and the headers the handler set.  The read of a directory
\* fails with EISDIR; the stream has no listener for its error event, so the
\* error is uncaught, the handler of uncaughtException in server.js ends the
\* process, and no answer is sent.
FileStream ==
  /\ phase = "streaming"
  /\ LET filePath == pathJoin("/tmp", req.filename)
     IN  IF filePath \in Directories
         THEN /\ phase' = "exited"
              /\ response' = response
         ELSE /\ phase' = "done"
              /\ response' = [ status |-> 200,
                               body |-> [ attachment |-> req.filename, file |-> filePath ] ]
  /\ UNCHANGED << doc, hasChroma, clientVars, authVars, fontVars, extractVars, clock, results,
                  guideVars, urls, promises >>

NextServer ==
  AuthMiddleware \/ Single \/ SingleDone \/ Receive \/ Settle \/ Join \/ DownloadDocs
    \/ FileStream \/ Tick

SpecServer == InitServer /\ [][NextServer]_vars

(***************************************************************************)
(* normalizeFontFamily on family names written with and without quotes     *)
(* and blanks around them.                                                 *)
(***************************************************************************)
FamilyNames ==
  { "Times New Roman", "Times", "TIMES NEW ROMAN", "sans-serif", "serif", "Sans-Serif",
    "Helvetica Neue", "Helvetica, Arial, sans-serif", "Arial", "Comic Sans MS", "Futura",
    "Printer Mono", "Inter", "Source Serif Pro", "Courier New, monospace", "monospace",
    "system-ui", "Open Sans", "Roboto Slab", "Bob's Hand", "PT Serif", "" }

Wraps == { "", " ", "'", "\"", " '", "\" " }

FamilyInputs == { before \o name \o after : before \in Wraps, name \in FamilyNames, after \in Wraps }

InitNormalize ==
  /\ phase = "ready"
  /\ Blank
  /\ Offline
  /\ doc = << >>
  /\ hasChroma = TRUE
  /\ analyses = << >>
  /\ files = << >>
  /\ urls = NoUrls
  /\ Direct
  /\ rawFamily \in FamilyInputs

\* A call of normalizeFontFamily: the first on a name, or one on the value
\* an earlier call returned.
NormalizeFontFamily ==
  /\ phase \in { "ready", "again" }
  /\ phase' = IF phase = "ready" THEN "done" ELSE "twice"
  /\ normalFamily' = normalizeFontFamily(rawFamily)
  /\ UNCHANGED << doc, hasChroma, clientVars, authVars, rawFamily, extractVars, clock, results,
                  guideVars, routeVars >>

\* The caller hands the value returned back in as the next name.
Renormalize ==
  /\ phase = "done"
  /\ phase' = "again"
  /\ rawFamily' = normalFamily
  /\ normalFamily' = ""
  /\ UNCHANGED << doc, hasChroma, clientVars, authVars, extractVars, clock, results, guideVars, routeVars >>

NextNormalize == NormalizeFontFamily \/ Renormalize

SpecNormalize == InitNormalize /\ [][NextNormalize]_vars

(***************************************************************************)
(* SquidexClientService.pushDesign. A schema of the mapping configuration  *)
(* is its name, its type and its fields by name and Squidex type; the      *)
(* design data say which of the values the fields point at are defined,    *)
(* whether they can be serialized, and how many buttons there are. An item *)
(* is the sequence of the fields that were mapped.                         *)
(***************************************************************************)
MaxItems == 2

SchemaConfigs ==
  { [ name |-> "style-guide", type |-> "styleGuide",
      fields |-> << [ field |-> "id", type |-> "string" ],
                    [ field |-> "name", type |-> "string" ] >> ],
    [ name |-> "tokens", type |-> "typography",
      fields |-> << [ field |-> "scale", type |-> "json" ] >> ],
    [ name |-> "buttons", type |-> "components",
      fields |-> << [ field |-> "backgroundColor", type |-> "string" ] >> ],
    [ name |-> "icons", type |-> "icons",
      fields |-> << [ field |-> "name", type |-> "string" ] >> ] }

\* mappingConfig.schemas: an object, so no name twice, in key order.
MappingConfigs ==
  { m \in SeqsUpTo(SchemaConfigs, 2) :
      \A i, j \in 1..Len(m) : i # j => m[i].name # m[j].name }

DesignData ==
  [ defined : { { "name", "scale", "backgroundColor" },
                { "id", "name", "scale", "backgroundColor" } },
    serializable : BOOLEAN,
    buttons : 0..MaxItems ]

\* The object a schema's fields are mapped to: the fields whose value is not
\* undefined, each formatted to its type.
mapFields(designData, schemaConfig) ==
  SelectSeq([ k \in 1..Len(schemaConfig.fields) |-> schemaConfig.fields[k].field ],
            LAMBDA field : field \in designData.defined)

\* _formatValue throws on a json field whose value JSON.stringify turns
\* into undefined.
mapThrows(designData, schemaConfig) ==
  /\ schemaConfig.type \in { "styleGuide", "colorPalette", "typography" }
        \/ (schemaConfig.type = "components" /\ designData.buttons > 0)
  /\ ~designData.serializable
  /\ \E k \in 1..Len(schemaConfig.fields) :
        /\ schemaConfig.fields[k].type = "json"
        /\ schemaConfig.fields[k].field \in designData.defined

\* The items of a schema: one for a style guide, a colour palette or a
\* typography, one per button for components, none for an unknown type.
mapDesignToSchema(designData, schemaConfig) ==
  IF schemaConfig.type \in { "styleGuide", "colorPalette", "typography" }
  THEN << mapFields(designData, schemaConfig) >>
  ELSE IF schemaConfig.type = "components"
  THEN [ k \in 1..designData.buttons |-> mapFields(designData, schemaConfig) ]
  ELSE << >>

\* const contentData = { ...item }; delete contentData.id
contentData(item) == SelectSeq(item, LAMBDA field : field # "id")

\* The answers of a client: the mock client finds no item and creates and
\* updates without error; the CMS finds an item or not, and its
\* updateContent or createContent ends with an error or without ("").
lookupAnswers(client) == IF client = "mock" THEN { FALSE } ELSE BOOLEAN

writeAnswers(client) == IF client = "mock" THEN { "" } ELSE { "", "409 Conflict" }

\* The call goes on in its loops from the item it stands at to its next
\* await, or to its end.  The next item of the schema is looked up when it
\* has an id and created when it has none.  After the last item of a
\* schema the next schema is mapped, from the design data as they are then:
\* a mapping that throws ends the call with its error, a schema without
\* items is passed over.  After the last schema success is set and the
\* results are returned.
RECURSIVE nextAwait(_)
nextAwait(p) ==
  IF p.item < Len(p.schemaData)
  THEN [ p EXCEPT !.item = @ + 1,
                  !.pc = IF "id" \in Range(p.schemaData[p.item + 1]) THEN "getContent"
                         ELSE "createContent",
                  !.served = p.client ]
  ELSE IF p.schema = Len(p.mappingConfig)
  THEN [ p EXCEPT !.pc = "returned", !.results.success = (Len(p.results.failed) = 0) ]
  ELSE LET schemaConfig == p.mappingConfig[p.schema + 1]
           schemaData   == mapDesignToSchema(p.designData, schemaConfig)
       IN  IF mapThrows(p.designData, schemaConfig)
           THEN [ p EXCEPT !.pc = "thrown", !.schema = @ + 1 ]
           ELSE nextAwait([ p EXCEPT !.schema = @ + 1, !.item = 0,
                                     !.schemaData = schemaData,
                                     !.items = @ \o [ i \in 1..Len(schemaData) |->
                                                        [ schema |-> schemaConfig.name,
                                                          data   |-> schemaData[i] ] ] ])

\* A slip: the first failure ends the loops, the remaining items dropped.
pushItemOrStop(p, error) ==
  LET item  == p.schemaData[p.item]
      name  == p.mappingConfig[p.schema].name
      entry(id) == [ schema |-> name, id |-> id, data |-> contentData(item) ]
  IN  IF error # ""
      THEN [ p EXCEPT !.pc = "returned", !.results.success = FALSE,
                      !.results.failed = Append(@, [ schema |-> name, data |-> item,
                                                     error |-> error ]),
                      !.results.errors = Append(@, error) ]
      ELSE IF p.pc = "updateContent"
      THEN nextAwait([ p EXCEPT !.results.updated = Append(@, entry("id")) ])
      ELSE nextAwait([ p EXCEPT !.results.created = Append(@, entry("new")) ])

\* The call after the await of updateContent or createContent: the item is
\* recorded as updated or created, or, the error caught, as failed; then
\* the loops go on.
pushItem(p, error) ==
  LET item  == p.schemaData[p.item]
      name  == p.mappingConfig[p.schema].name
      entry(id) == [ schema |-> name, id |-> id, data |-> contentData(item) ]
  IN  IF error # ""
      THEN nextAwait([ p EXCEPT !.results.failed = Append(@, [ schema |-> name, data |-> item,
                                                               error |-> error ]),
                                !.results.errors = Append(@, error) ])
      ELSE IF p.pc = "updateContent"
      THEN nextAwait([ p EXCEPT !.results.updated = Append(@, entry("id")) ])
      ELSE nextAwait([ p EXCEPT !.results.created = Append(@, entry("new")) ])

\* The service as its constructor leaves it: no client, not authenticated,
\* authDisabled as SQUIDEX_AUTH_DISABLED is at that moment.
InitPush ==
  /\ phase = "ready"
  /\ Blank
  /\ files = << >>
  /\ rawFamily = ""
  /\ doc = << >>
  /\ hasChroma = TRUE
  /\ analyses = << >>
  /\ urls = NoUrls
  /\ Direct
  /\ site = NoSite
  /\ accessed = << >>
  /\ \E authDisabled \in BOOLEAN : push = [ NoPush EXCEPT !.authDisabled = authDisabled ]

pushVars == << doc, hasChroma, site, accessed, authVars, fontVars, phase, extractVars, clock,
               results, guideVars, routeVars >>

\* Whether a call of pushDesign is at one of its awaits.
pushing == push.pc \in { "getContent", "updateContent", "createContent" }

\* initialize() up to its return or its await: the mock client when
\* authentication is disabled; false when a required environment variable
\* is missing; else a new client, and the wait for its login.
Initialize ==
  /\ push.init = "idle"
  /\ \E missing \in BOOLEAN :
        push' = IF push.authDisabled
                THEN [ push EXCEPT !.client = "mock", !.isAuthenticated = TRUE ]
                ELSE IF missing THEN push
                ELSE [ push EXCEPT !.client = "squidex", !.init = "awaiting" ]
  /\ UNCHANGED pushVars

\* initialize() after clientCredentialsFlow: authenticated, or the error
\* caught and false returned.
InitializeDone ==
  /\ push.init = "awaiting"
  /\ \E loggedIn \in BOOLEAN :
        push' = [ push EXCEPT !.init = "idle",
                              !.isAuthenticated = IF loggedIn THEN TRUE ELSE @ ]
  /\ UNCHANGED pushVars

\* pushDesign is called: it throws when the service is not authenticated;
\* else it goes into its loops, up to its first await or to its end.
PushDesign ==
  /\ ~pushing
  /\ \E designData \in DesignData, mappingConfig \in MappingConfigs :
        push' = IF ~push.isAuthenticated THEN [ push EXCEPT !.pc = "thrown" ]
                ELSE nextAwait([ push EXCEPT !.designData = designData,
                                             !.mappingConfig = mappingConfig,
                                             !.schema = 0, !.schemaData = << >>, !.item = 0,
                                             !.items = << >>,
                                             !.results = NoPush.results ])
  /\ UNCHANGED pushVars

\* A callback that runs while the call is at an await changes the design
\* data the call was given: buttons are added or taken away.
ChangeDesign ==
  /\ pushing
  /\ \E buttons \in 0..MaxItems :
        /\ buttons # push.designData.buttons
        /\ push' = [ push EXCEPT !.designData.buttons = buttons ]
  /\ UNCHANGED pushVars

\* The call after the await of getContent: the item found is updated, and
\* an item that is not found (the error is caught) is created, by the
\* client the service has then.
GetContent ==
  /\ push.pc = "getContent"
  /\ \E exists \in lookupAnswers(push.served) :
        push' = [ push EXCEPT !.pc = IF exists THEN "updateContent" ELSE "createContent",
                              !.served = push.client ]
  /\ UNCHANGED pushVars

PushItem ==
  /\ push.pc \in { "updateContent", "createContent" }
  /\ \E error \in writeAnswers(push.served) : push' = pushItem(push, error)
  /\ UNCHANGED pushVars

NextPush == Initialize \/ InitializeDone \/ PushDesign \/ ChangeDesign \/ GetContent \/ PushItem

SpecPush == InitPush /\ [][NextPush]_vars

(***************************************************************************)
(* analyzeSite: the browser is launched, then a page is opened, loaded and *)
(* evaluated, its title, description and screenshot are taken, each with   *)
(* an await that is fulfilled or rejected, and the finally block closes    *)
(* the browser.                                                            *)
(***************************************************************************)
\* The awaits of the try block in order, with the error each rejects with.
siteSteps ==
  << [ pc |-> "newPage",     error |-> "Protocol error (Target.createTarget)" ],
     [ pc |-> "goto",        error |-> "Navigation timeout of 60000 ms exceeded" ],
     [ pc |-> "evaluate",    error |-> "Evaluation failed" ],
     [ pc |-> "title",       error |-> "Execution context was destroyed" ],
     [ pc |-> "description", error |-> "failed to find element matching selector" ],
     [ pc |-> "screenshot",  error |-> "Protocol error (Page.captureScreenshot)" ] >>

stepOf(pc) == CHOOSE k \in 1..Len(siteSteps) : siteSteps[k].pc = pc

\* A slip: the error of the try block settles the call at once.
rejectedUnclosed(s, error) ==
  [ s EXCEPT !.pc = "idle",
             !.settled = Append(@, [ ok |-> FALSE, value |-> error ]) ]

\* An await of the try block rejects: the catch block logs the error and
\* throws it again, which leads into the finally block.
rejected(s, error) ==
  [ s EXCEPT !.pc = "finally", !.pending = [ ok |-> FALSE, value |-> error ] ]

\* An await of the try block is fulfilled: on to the next one, and after
\* the screenshot to the finally block with the value to return.
fulfilled(s) ==
  IF stepOf(s.pc) < Len(siteSteps)
  THEN [ s EXCEPT !.pc = siteSteps[stepOf(s.pc) + 1].pc ]
  ELSE [ s EXCEPT !.pc = "finally", !.pending = [ ok |-> TRUE, value |-> s.url ] ]

InitSite ==
  /\ phase = "ready"
  /\ Blank
  /\ files = << >>
  /\ rawFamily = ""
  /\ doc = << >>
  /\ hasChroma = TRUE
  /\ analyses = << >>
  /\ urls = NoUrls
  /\ Direct
  /\ push = NoPush
  /\ site = NoSite
  /\ accessed = << >>

\* analyzeSite(url) up to its first await: puppeteer.launch gives a
\* browser, or rejects and the call settles without one.
Launch ==
  /\ site.pc = "idle"
  /\ Len(site.settled) < MaxCalls
  /\ \E url \in Range(Urls), started \in BOOLEAN :
        site' = IF started
                THEN [ site EXCEPT !.pc = "newPage", !.url = url, !.browser = "open",
                                   !.launched = @ + 1 ]
                ELSE [ site EXCEPT !.url = url,
                                   !.settled = Append(@, [ ok |-> FALSE,
                                                           value |-> "Failed to launch the browser process" ]) ]
  /\ UNCHANGED << doc, hasChroma, push, accessed, authVars, fontVars, phase, extractVars, clock, results,
                  guideVars, routeVars >>

\* One await of the try block settles; the rejection of the description's
\* $eval is caught on the spot and gives the empty string.
Await ==
  /\ site.pc \in { siteSteps[k].pc : k \in 1..Len(siteSteps) }
  /\ \E ok \in BOOLEAN :
        site' = IF ok \/ site.pc = "description" THEN fulfilled(site)
                ELSE rejected(site, siteSteps[stepOf(site.pc)].error)
  /\ UNCHANGED << doc, hasChroma, push, accessed, authVars, fontVars, phase, extractVars, clock, results,
                  guideVars, routeVars >>

\* The finally block: browser.close() is called and awaited, then the call
\* settles with what the try block left, or with the error of close().
Close ==
  /\ site.pc = "finally"
  /\ \E ok \in BOOLEAN :
        site' = [ site EXCEPT !.pc = "idle",
                              !.browser = IF ok THEN "closed" ELSE "closing failed",
                              !.closed = @ + 1,
                              !.settled = Append(@, IF ok THEN site.pending
                                                    ELSE [ ok |-> FALSE,
                                                           value |-> "Protocol error (Browser.close)" ]) ]
  /\ UNCHANGED << doc, hasChroma, push, accessed, authVars, fontVars, phase, extractVars, clock, results,
                  guideVars, routeVars >>

NextSite == Launch \/ Await \/ Close

\* Every call puppeteer is awaited on settles (the navigation after 60
\* seconds at the latest), so a call under way always takes its next step.
SpecSite == InitSite /\ [][NextSite]_vars /\ WF_vars(NextSite)

(***************************************************************************)
(* Claims about extractColors, under SpecColors.                           *)
(***************************************************************************)
allColors == colors.all

\* The keys of the frequency map that processColors left out of `all`.
droppedColors == { k \in Range(mapKeys(colorMap)) : k \notin Range(allColors) }

\* How often the collectors counted key k in the document.
counted(k) ==
  LET stream == inlinePass(doc) \o svgPass(doc) \o classPass(doc)
  IN  Cardinality({ i \in 1..Len(stream) : stream[i] = k })

ScenarioA == << Elements[1], Elements[1], Elements[1], Elements[2] >>

\* C1 as stated: any two distinct entries of `all` have a perceptual
\* distance, and it is at least 15.
C1_AllPairsDistant ==
  phase = "done" =>
    \A i, j \in 1..Len(allColors) :
       i # j => /\ deltaE(allColors[i], allColors[j]) # Throws
                /\ deltaE(allColors[i], allColors[j]) >= 1500

\* C1 amended: any two distinct entries of `all` that both parse as colours
\* are at distance 15 or more; an entry that does not parse (a symbolic
\* var(--name) reference) has no distance to anything and is always kept.
C1_ParsedPairsDistant ==
  phase = "done" =>
    /\ \A i, j \in 1..Len(allColors) :
          (i # j /\ parses(allColors[i]) /\ parses(allColors[j]))
            => deltaE(allColors[i], allColors[j]) >= 1500
    /\ \A k \in Range(mapKeys(colorMap)) : ~parses(k) => k \in Range(allColors)

\* C1 witness: `all` holds two colours that parse and a symbolic reference,
\* and a near-duplicate was dropped.
C1_Witness ==
  /\ phase = "done"
  /\ Cardinality({ c \in Range(allColors) : parses(c) }) >= 2
  /\ \E c \in Range(allColors) : ~parses(c)
  /\ droppedColors # {}

\* C2: primary, secondary and accent are pairwise disjoint.
C2_CategoriesDisjoint ==
  phase = "done" =>
    /\ Range(colors.primary) \cap Range(colors.secondary) = {}
    /\ Range(colors.primary) \cap Range(colors.accent) = {}
    /\ Range(colors.secondary) \cap Range(colors.accent) = {}

\* C2 witness: all three categories hold a colour.
C2_Witness ==
  /\ phase = "done"
  /\ colors.primary # <<>>
  /\ colors.secondary # <<>>
  /\ colors.accent # <<>>

\* C7 as stated: the accepted colour carries the count of the candidates
\* dropped in its favour (the frequency map is the only place where the
\* program holds a count for an entry of `all`).
C7_CountsMerged ==
  phase = "done" =>
    \A d \in droppedColors :
       \E a \in Range(allColors) :
          /\ deltaE(d, a) # Throws
          /\ deltaE(d, a) < 1500
          /\ mapGet(colorMap, a) >= counted(a) + counted(d)

\* C7 amended: deduplication drops the near-duplicate and merges nothing.
\* `all` is a sequence of colour strings without counts; a dropped candidate
\* is within distance 15 of an accepted colour that is at least as frequent,
\* and the frequency map keeps every colour's own count: the document of
\* Scenario A yields all = [#ff0000] with #ff0000 counted 3 and #ff0101
\* counted 1.
C7_DroppedNotMerged ==
  phase = "done" =>
    /\ \A d \in droppedColors :
          \E a \in Range(allColors) :
             /\ deltaE(d, a) # Throws
             /\ deltaE(d, a) < 1500
             /\ mapGet(colorMap, a) >= mapGet(colorMap, d)
    /\ \A k \in Range(mapKeys(colorMap)) : mapGet(colorMap, k) = counted(k)
    /\ doc = ScenarioA =>
          /\ allColors = << "#ff0000" >>
          /\ colorMap = << [key |-> "#ff0000", count |-> 3],
                           [key |-> "#ff0101", count |-> 1] >>

\* C7 witness: the document of Scenario A has been analysed.
C7_Witness == phase = "done" /\ doc = ScenarioA /\ droppedColors = { "#ff0101" }

(***************************************************************************)
(* Claims about analyzeLayout, under SpecLayout.                           *)
(***************************************************************************)
\* The selectors of framework k that match an element of the document,
\* counted over the elements themselves.
matchedSelectors(k) ==
  { sel \in Range(cssFrameworks[k].selectors) :
      \E i \in 1..Len(doc) : matchesSelector(doc[i], sel) }

\* C3: every framework's confidence is 100 * matched / total rounded to the
\* nearest integer (halves up), lies in 0..100, and detected is true exactly
\* when the confidence exceeds 30; 4 of Bootstrap's 8 selectors give
\* confidence 50, detected.
C3_Confidence ==
  phase = "done" =>
    \A k \in 1..Len(cssFrameworks) :
       LET f     == layout.frameworks[k]
           total == Len(cssFrameworks[k].selectors)
           m     == Cardinality(matchedSelectors(k))
       IN  /\ f.name = cssFrameworks[k].name
           /\ f.confidence \in 0..100
           /\ 2 * total * f.confidence - total <= 200 * m
           /\ 200 * m < 2 * total * f.confidence + total
           /\ f.detected <=> f.confidence > 30
           /\ (k = 1 /\ m = 4) => (f.confidence = 50 /\ f.detected)

\* C3 witness: a document matching 4 of Bootstrap's 8 selectors, with another
\* framework below the detection line and a confidence that had to be rounded
\* up from a half.
C3_Witness ==
  /\ phase = "done"
  /\ Cardinality(matchedSelectors(1)) = 4
  /\ layout.frameworks[1].confidence = 50
  /\ \E k \in 1..Len(cssFrameworks) :
        layout.frameworks[k].confidence > 0 /\ ~layout.frameworks[k].detected
  /\ \E k \in 1..Len(cssFrameworks) :
        200 * Cardinality(matchedSelectors(k))
          = (2 * layout.frameworks[k].confidence - 1) * Len(cssFrameworks[k].selectors)

(***************************************************************************)
(* Claims about extractTypography, under SpecTypo.                         *)
(***************************************************************************)
\* The family a web-font stylesheet link names, "" for any other element.
linkedFamily(el) ==
  IF /\ el.tag = "link" /\ hasAttr(el, "rel") /\ el.attrs.rel = "stylesheet"
     /\ hasAttr(el, "href") /\ includes(el.attrs.href, "fonts.googleapis.com")
     /\ familyMatch(el.attrs.href) # ""
  THEN normalizeFontFamily(replaceChars(familyMatch(el.attrs.href), {"+"}, " "))
  ELSE ""

\* The number of web-font links of the document that name family f.
linksTo(f) == Cardinality({ i \in 1..Len(doc) : linkedFamily(doc[i]) = f })

\* The number of signals for family f that styles and headings give.
styledAs(f) ==
  Cardinality({ i \in 1..Len(doc) :
                  hasAttr(doc[i], "style")
                  /\ styleMatch(doc[i].attrs.style, "font-family") # ""
                  /\ normalizeFontFamily(styleMatch(doc[i].attrs.style, "font-family")) = f })
  + Cardinality({ i \in 1..Len(doc) :
                  doc[i].tag \in Range(headingTags)
                  /\ css(doc[i], "font-family") # ""
                  /\ normalizeFontFamily(css(doc[i], "font-family")) = f })

ScenarioB == << Elements[15] >>

\* C9: every web-font stylesheet link with a family parameter adds 10 to the
\* count of the normalized family; a document whose only font signal is one
\* such link has that family alone at rank 1 with count 10, and for
\* family=Roboto it is "Roboto, sans-serif".
C9_LinkedFontWeight ==
  phase = "done" =>
    /\ \A i \in 1..Len(doc) :
          linkedFamily(doc[i]) # "" =>
            \E k \in 1..Len(typography.fontFamilies) :
               typography.fontFamilies[k].value = linkedFamily(doc[i])
    /\ \A k \in 1..Len(typography.fontFamilies) :
          LET e == typography.fontFamilies[k]
          IN  e.count = styledAs(e.value) + 10 * linksTo(e.value)
    /\ \A i \in 1..Len(doc) :
          ( /\ linkedFamily(doc[i]) # ""
            /\ \A j \in 1..Len(doc) :
                  j # i => /\ linkedFamily(doc[j]) = ""
                           /\ typographyOf(doc[j]).inline = <<>>
                           /\ typographyOf(doc[j]).heading = <<>> )
          => typography.fontFamilies = << [value |-> linkedFamily(doc[i]), count |-> 10] >>
    /\ doc = ScenarioB =>
          typography.fontFamilies = << [value |-> "Roboto, sans-serif", count |-> 10] >>

\* C9 witness: the Roboto link alone, analysed.
C9_Witness ==
  /\ phase = "done"
  /\ doc = ScenarioB
  /\ typography.fontFamilies[1] = [value |-> "Roboto, sans-serif", count |-> 10]

\* C9 witness of the general case: two links and a style name one family.
C9_WitnessSum ==
  /\ phase = "done"
  /\ \E k \in 1..Len(typography.fontFamilies) :
        /\ linksTo(typography.fontFamilies[k].value) = 2
        /\ styledAs(typography.fontFamilies[k].value) > 0

(***************************************************************************)
(* Claims about generateStyleGuide, under SpecGuide.                       *)
(***************************************************************************)
\* The analyses of the batch that vote for a framework: it has the highest
\* confidence of the analysis, above 0, and none before it has as much.
votersOf(name) ==
  { i \in 1..Len(analyses) :
      LET fs == analyses[i].layout.frameworks
      IN  \E k \in 1..Len(fs) :
             /\ fs[k].name = name
             /\ fs[k].confidence > 0
             /\ \A j \in 1..Len(fs) : fs[j].confidence <= fs[k].confidence
             /\ \A j \in 1..(k - 1) : fs[j].confidence < fs[k].confidence }

recommended == styleGuide.layout.recommendedFramework

\* C4: the recommended framework of a style guide, when it is not null, has
\* the vote of at least one analysis of the batch.
C4_RecommendedHasVotes ==
  (phase = "done" /\ guideCalls > 0) =>
     (recommended # "null" => votersOf(recommended) # {})

\* C4 witness: a guide that recommends a framework which one analysis of
\* the batch voted for and another did not; and the code of the empty batch
\* has been passed, too.
C4_Witness ==
  /\ phase = "done"
  /\ guideCalls > 0
  /\ Len(analyses) = 2
  /\ recommended # "null"
  /\ Cardinality(votersOf(recommended)) = 1

\* C5 (as the specification states it): a call with an empty batch ends
\* with a precondition error, one raised on the batch before anything is
\* synthesized from it, and returns no style guide.
C5_EmptyBatchFails ==
  (phase = "done" /\ analyses = << >>) => (~guide.ok /\ styleGuide = NotAssembled)

\* C5, its last part alone: a call with an empty batch returns no style
\* guide.
C5_EmptyBatchReturnsNothing ==
  (phase = "done" /\ analyses = << >>) => ~guide.ok

\* C5, the failing input: the empty batch has been synthesized into a style
\* guide whose categories are all empty, and the call has ended with the
\* error every other batch ends with.
C5_FailingInput ==
  /\ phase = "done"
  /\ analyses = << >>
  /\ styleGuide.colors.palette.primary = << >>
  /\ styleGuide.layout.recommendedFramework = "null"
  /\ guide = throws("asset is not defined")

occurrences(pool, c) == Cardinality({ i \in 1..Len(pool) : pool[i] = c })

firstAt(pool, c) == Min({ i \in 1..Len(pool) : pool[i] = c })

\* a is ranked before b: more occurrences, or as many and met earlier.
ranksBefore(pool, a, b) ==
  \/ occurrences(pool, a) > occurrences(pool, b)
  \/ occurrences(pool, a) = occurrences(pool, b) /\ firstAt(pool, a) < firstAt(pool, b)

\* chosen is the first n distinct colours of the pool in rank order.
firstRanked(pool, chosen, n) ==
  /\ \A i, j \in 1..Len(chosen) : i < j => chosen[i] # chosen[j]
  /\ Range(chosen) \subseteq Range(pool)
  /\ Len(chosen) = IF Cardinality(Range(pool)) < n THEN Cardinality(Range(pool)) ELSE n
  /\ \A i, j \in 1..Len(chosen) : i < j => ranksBefore(pool, chosen[i], chosen[j])
  /\ \A c \in Range(pool) \ Range(chosen) :
        \A i \in 1..Len(chosen) : ranksBefore(pool, chosen[i], c)

\* C8: every category of the merged palette is the first N distinct colours
\* (primary 3, secondary 3, accent 2, neutral 4) of its pool by descending
\* number of occurrences in the pool, ties by first appearance, no colour
\* twice; the primary pools [A, A, B] and [A, C] put A, met 3 times, first.
C8_TopOfPool ==
  (phase = "done" /\ guideCalls > 0) =>
     LET palette == styleGuide.colors.palette
         pools   == palettePools(analyses)
     IN  /\ firstRanked(pools.primary, palette.primary, 3)
         /\ firstRanked(pools.secondary, palette.secondary, 3)
         /\ firstRanked(pools.accent, palette.accent, 2)
         /\ firstRanked(pools.neutral, palette.neutral, 4)
         /\ analyses = ScenarioE =>
               /\ pools.primary = << "#ff0000", "#ff0000", "#0000ff", "#ff0000", "#28a745" >>
               /\ palette.primary = << "#ff0000", "#0000ff", "#28a745" >>

\* C8 witness: the two assembled analyses merged, A first.
C8_Witness ==
  /\ phase = "done"
  /\ guideCalls > 0
  /\ analyses = ScenarioE
  /\ styleGuide.colors.palette.primary[1] = "#ff0000"
  /\ occurrences(palettePools(analyses).primary, "#ff0000") = 3

\* C8 witness of the ranking: a batch of analysed pages whose most frequent
\* primary colour is not the one met first, and a pool cut to N.
C8_WitnessRanked ==
  /\ phase = "done"
  /\ guideCalls > 0
  /\ analyses # ScenarioE
  /\ LET pool == palettePools(analyses).primary
     IN  /\ Cardinality(Range(pool)) > 3
         /\ styleGuide.colors.palette.primary[1] # pool[1]

(***************************************************************************)
(* Claims about analyzeWebsite, under SpecAnalyze.                         *)
(***************************************************************************)
\* The calls that returned.
returned == { i \in 1..Len(results) : results[i].ok }

\* C6: two calls of analyzeWebsite on the same unchanged document return
\* identical values, field for field.
C6_Identical ==
  \A i, j \in returned : results[i].value = results[j].value

\* The calls the code and C6 part on: two calls on one page with colours and
\* fonts, the clock having advanced between them.  The values returned
\* differ, and in their timestamp only.
C6_FailingInput ==
  /\ Cardinality(returned) >= 2
  /\ results[1].value.colors.all # << >>
  /\ results[1].value.typography.fontFamilies # << >>
  /\ \E i, j \in returned :
        /\ results[i].value # results[j].value
        /\ results[i].value.timestamp # results[j].value.timestamp
        /\ [ results[i].value EXCEPT !.timestamp = "" ]
             = [ results[j].value EXCEPT !.timestamp = "" ]

(***************************************************************************)
(* Claims about POST /api/analyze/multiple, under SpecRoute.               *)
(***************************************************************************)
\* C10: generateStyleGuide is called at most once for a request, and only
\* when every call of analyzeWebsite has ended well, whatever the order in
\* which they end; once a call has failed it is never called, and the
\* answer, when it is sent, is an error.
C10_JoinBeforeAggregation ==
  /\ guideCalls <= 1
  /\ guideCalls = 1 =>
        /\ promises # << >>
        /\ \A i \in 1..Len(promises) : promises[i].state = "fulfilled"
        /\ Len(analyses) = Len(promises)
  /\ (\E i \in 1..Len(promises) : promises[i].state = "rejected") =>
        /\ guideCalls = 0
        /\ guide = NoGuide
        /\ response.status \in {0, 500}
        /\ phase = "done" => response.status = 500

\* C10 witness: a request for two pages whose style guide has been asked
\* for, once, after both calls have ended well.
C10_Witness ==
  /\ phase = "done"
  /\ guideCalls = 1
  /\ Len(promises) = 2
  /\ \A i \in 1..2 : promises[i].state = "fulfilled"
  /\ analyses = fulfilledValues(promises)
  /\ styleGuide # NotAssembled
  /\ response.status = 500

\* C10 witness of the failure: one call failed, another ended well later,
\* and the answer is the error.
C10_WitnessFailure ==
  /\ phase = "done"
  /\ response.status = 500
  /\ guideCalls = 0
  /\ \E i, j \in 1..Len(promises) :
        promises[i].state = "rejected" /\ promises[j].state = "fulfilled"

(***************************************************************************)
(* Claims about the bound on the batch, under SpecRoute.                   *)
(***************************************************************************)
\* A request body whose urls is missing, no array, empty or too long.
badUrls == urls.type # "array" \/ Len(urls.items) < 1 \/ Len(urls.items) > 5

\* C11: generateStyleGuide is called with 1 to 5 analyses only; a request
\* whose urls is missing, no array, empty or longer than 5 starts no
\* analysis and no synthesis, and once the handler has run its answer is 400.
C11_BoundEnforced ==
  /\ guideCalls > 0 => (Len(analyses) >= 1 /\ Len(analyses) <= 5)
  /\ badUrls => (promises = << >> /\ guideCalls = 0 /\ analyses = << >> /\ files = << >>)
  /\ (badUrls /\ phase # "ready") => (phase = "done" /\ response.status = 400)
  /\ response.status = 400 => badUrls

\* C11 witness: six URLs have been answered 400.
C11_Witness ==
  /\ urls.type = "array"
  /\ Len(urls.items) = 6
  /\ phase = "done"
  /\ response.status = 400
  /\ promises = << >>

\* C11, second witness: five URLs have been analysed and the style guide
\* asked for with the five analyses.
C11_WitnessFive ==
  /\ Len(urls.items) = 5
  /\ guideCalls = 1
  /\ Len(analyses) = 5
  /\ phase = "done"

(***************************************************************************)
(* Claims about the effects of generateStyleGuide, under SpecGuide.        *)
(***************************************************************************)
\* C12: a call of generateStyleGuide does no input or output: it leaves the
\* file system as it was, hands nothing to the logger, and the error it ends
\* with is never a failure of input or output.
C12_NoInputOutput ==
  guideCalls > 0 =>
     /\ files = << >>
     /\ logged = << >>
     /\ ~guide.ok => guide.value.message # "ENOSPC: no space left on device, write"

\* The call the code and C12 part on: any call, here one on a batch of two
\* analyses with colours.  It has logged three lines, the last of them on
\* entering generateDocs, where it ended before the file of the
\* documentation was written.
C12_FailingInput ==
  /\ guideCalls = 1
  /\ Len(analyses) = 2
  /\ styleGuide.colors.palette.primary # << >>
  /\ logged = << logger("info", "Generating style guide from 2 website analyses"),
                 logger("info", "Generating documentation for style guide"),
                 logger("info", "Generating documentation from style guide") >>
  /\ guide = throws("asset is not defined")
  /\ files = << >>

(***************************************************************************)
(* Claims about the authentication middleware, under SpecServer.           *)
(***************************************************************************)
\* The request carries a token signed with the server's key and not expired.
tokenVerifies ==
  /\ req.token.kind = "jwt"
  /\ ~req.token.expired
  /\ req.token.key = (IF env.JWT_SECRET = "undefined" THEN "fallback_secret"
                      ELSE env.JWT_SECRET)

authDisabled == env.AUTH_ENABLED # "true"

\* C13: the handler of a guarded route is entered only when authentication
\* is disabled (the request then goes on as guest) or the token of the
\* request verifies; with authentication enabled a request whose token is
\* missing or does not verify is answered 401, and no handler is entered,
\* no analysis started and no file written for it.
C13_AuthGate ==
  /\ handlerCalls <= 1
  /\ phase \in {"ready", "awaiting", "streaming", "exited"} => (authDisabled \/ tokenVerifies)
  /\ handlerCalls > 0 => (authDisabled \/ tokenVerifies)
  /\ (handlerCalls > 0 /\ authDisabled) => user = Guest
  /\ (handlerCalls > 0 /\ ~authDisabled) => user = req.token.payload
  /\ (~authDisabled /\ ~tokenVerifies /\ phase # "gate") =>
        /\ phase = "done"
        /\ response.status = 401
        /\ handlerCalls = 0
        /\ results = << >>
        /\ promises = << >>
        /\ guideCalls = 0
  /\ response.status = 401 => (~authDisabled /\ ~tokenVerifies)

\* C13 witness: with authentication enabled, a token signed with another
\* key than the server's has been answered 401.
C13_Witness ==
  /\ env.AUTH_ENABLED = "true"
  /\ req.token.kind = "jwt"
  /\ ~req.token.expired
  /\ ~tokenVerifies
  /\ response.status = 401
  /\ handlerCalls = 0

\* C13, further witnesses: a handler entered as guest although the token is
\* no token, and a handler entered with a verified token.
C13_WitnessGuest ==
  /\ env.AUTH_ENABLED = "false"
  /\ req.token = Garbage
  /\ handlerCalls = 1
  /\ user = Guest

C13_WitnessVerified ==
  /\ env.AUTH_ENABLED = "true"
  /\ handlerCalls = 1
  /\ user = Admin
  /\ response.status = 200

(***************************************************************************)
(* Further claims about extractColors, under SpecColors.                   *)
(***************************************************************************)
categorized ==
  Range(colors.primary) \cup Range(colors.secondary) \cup Range(colors.accent)
    \cup Range(colors.neutral)

\* C14 (as the specification states it): primary is the first three entries
\* of `all`, secondary the three after them, and every colour of a category
\* is an entry of `all`.
C14_CategoriesFromAll ==
  phase = "done" =>
     /\ colors.primary = slice(allColors, 0, 3)
     /\ colors.secondary = slice(allColors, 3, 6)
     /\ categorized \subseteq Range(allColors)

\* C14, its last part alone: every colour of a category is an entry of `all`.
C14_CategoriesWithinAll ==
  phase = "done" => categorized \subseteq Range(allColors)

\* C14, the failing input: in Scenario A the near-duplicate that `all` has
\* dropped is a primary colour.
C14_ScenarioA ==
  (phase = "done" /\ doc = ScenarioA) =>
     ~(colors.primary = << "#ff0000", "#ff0101" >> /\ allColors = << "#ff0000" >>)

\* The declarations of one style text, as a CSS parser reads them: the
\* pieces between semicolons that have a colon, each with its property name
\* in lower case and its value, both trimmed.
declarationsOf(style) ==
  LET pieces == splitOn(style, ";")
      Colon(k) == RunEndNotIn(pieces[k], 1, {":"}) + 1
      Declares(k) == Colon(k) > 1 /\ Colon(k) < Len(pieces[k])
  IN  [ k \in { j \in 1..Len(pieces) : Declares(j) } |->
          [ property |-> toLowerCase(trim(SubSeq(pieces[k], 1, Colon(k) - 1))),
            value    |-> trim(SubSeq(pieces[k], Colon(k) + 1, Len(pieces[k]))) ] ]

\* The number of inline declarations of the document that give a scanned
\* property the valid colour k.
declared(k) ==
  Cardinality(
    { p \in { << i, j >> : i \in 1..Len(doc), j \in 1..40 } :
        /\ hasAttr(doc[p[1]], "style")
        /\ p[2] \in DOMAIN declarationsOf(doc[p[1]].attrs.style)
        /\ LET decl == declarationsOf(doc[p[1]].attrs.style)[p[2]]
           IN  /\ decl.property \in Range(colorProperties)
               /\ decl.value = k
               /\ isValidColor(k) })

occurrencesIn(stream, k) == Cardinality({ i \in 1..Len(stream) : stream[i] = k })

\* The values the inline declarations of the document give.
declaredValues ==
  UNION { { declarationsOf(doc[i].attrs.style)[j].value :
              j \in DOMAIN declarationsOf(doc[i].attrs.style) } :
          i \in { n \in 1..Len(doc) : hasAttr(doc[n], "style") } }

\* C15 (as the specification states it): every inline declaration of a
\* scanned property with a valid colour adds one occurrence of its value to
\* the frequency map, and nothing else of the style text adds any: the count
\* of a colour is the number of its declarations plus what the SVG
\* attributes and the class names add.
C15_CountsByDeclaration ==
  phase = "done" =>
     \A k \in Range(mapKeys(colorMap)) \cup declaredValues :
        mapGet(colorMap, k)
          = declared(k) + occurrencesIn(svgPass(doc), k) + occurrencesIn(classPass(doc), k)

\* C15, the failing input: of background-color: #ffffff; color: #cc0000 the
\* code counts #ffffff twice and #cc0000 not at all.
C15_FailingInput ==
  ~ /\ phase = "done"
    /\ doc = << Elements[3] >>
    /\ mapGet(colorMap, "#ffffff") = 2
    /\ mapGet(colorMap, "#cc0000") = 0
    /\ declared("#ffffff") = 1
    /\ declared("#cc0000") = 1

\* A value that passes colour syntax and is none of the excluded keywords,
\* letter case ignored.
wellFormed(k) ==
  /\ parses(k)
  /\ \A x \in {"transparent", "inherit", "initial", "currentcolor", "none"} :
        toLowerCase(k) # x

\* A symbolic reference var(--name) to one of the colour names of the class
\* vocabulary.
symbolic(k) ==
  /\ Len(k) > 7
  /\ SubSeq(k, 1, 6) = "var(--"
  /\ SubSeq(k, Len(k), Len(k)) = ")"
  /\ SubSeq(k, 7, Len(k) - 1) \in colorNames

\* The class names of every element of the catalogue.
ClassNames ==
  [ i \in 1..Len(Elements) |->
      IF hasAttr(Elements[i], "class") THEN splitSpaces(Elements[i].attrs.class) ELSE << >> ]

classNamesOf(el) == ClassNames[CHOOSE i \in 1..Len(Elements) : Elements[i] = el]

\* The number of times the class names of the document name the colour of
\* the symbolic reference k with one of the prefixes.
classUses(k) ==
  LET name == SubSeq(k, 7, Len(k) - 1)
      Uses(i) == LET names == classNamesOf(doc[i])
                 IN  { t \in { i } \X (1..Len(names)) \X (1..Len(colorClasses)) :
                         names[t[2]] = colorClasses[t[3]] \o name }
  IN  Cardinality(UNION { Uses(i) : i \in 1..Len(doc) })

\* C16 (as the claim states it): no key of the frequency map fails colour
\* syntax or is one of the excluded keywords, whichever collector it is from.
C16_NoInvalidKey ==
  phase = "done" => \A k \in Range(mapKeys(colorMap)) : wellFormed(k)

\* C16 amended: a key of the frequency map passes colour syntax and is none
\* of the excluded keywords, letter case ignored, unless it is a symbolic
\* reference var(--name), and such a key is counted once for every class
\* name that names it: the class-name collector records its references
\* without validating them.
C16_OnlySymbolicKeysInvalid ==
  phase = "done" =>
     \A k \in Range(mapKeys(colorMap)) :
        \/ wellFormed(k)
        \/ symbolic(k) /\ mapGet(colorMap, k) = classUses(k)

\* C16 witness: a document with stroke="Transparent", with color: inherit
\* and with colour classes; neither keyword is a key, the references are.
C16_Witness ==
  /\ phase = "done"
  /\ \E i \in 1..Len(doc) : doc[i] = Elements[6]
  /\ \E i \in 1..Len(doc) : doc[i] = Elements[8]
  /\ \E i \in 1..Len(doc) : doc[i] = Elements[4]
  /\ ~mapHas(colorMap, "Transparent")
  /\ ~mapHas(colorMap, "inherit")
  /\ ~mapHas(colorMap, "1px solid #ccc")
  /\ mapGet(colorMap, "red") = 1
  /\ mapGet(colorMap, "var(--secondary)") = 1

\* C17: a collected value that the colour-space conversion cannot parse does
\* not keep extractColors from returning its five sequences, is in none of
\* accent and neutral (nor of primary and secondary), and is an entry of
\* `all`.
C17_UnparsedOnlyInAll ==
  phase = "done" =>
     /\ DOMAIN colors = {"primary", "secondary", "accent", "neutral", "all"}
     /\ \A k \in Range(mapKeys(colorMap)) :
           ~parses(k) =>
              /\ k \in Range(allColors)
              /\ k \notin Range(colors.accent)
              /\ k \notin Range(colors.neutral)
              /\ k \notin Range(colors.primary) \cup Range(colors.secondary)

\* C17 witness: symbolic references counted after and more often than
\* colours that parse; they are entries of `all`, and neutral is not empty.
C17_Witness ==
  /\ phase = "done"
  /\ mapHas(colorMap, "#ffffff")
  /\ mapGet(colorMap, "var(--primary)") = 3
  /\ "var(--primary)" \in Range(allColors)
  /\ "var(--white)" \in Range(allColors)
  /\ allColors[1] = "var(--primary)"
  /\ colors.neutral = << "#ffffff" >>

\* The position at which the colour k was first counted.
firstSeen(k) == CHOOSE i \in 1..Len(colorMap) : colorMap[i].key = k

\* a stands before b in the candidates sorted by descending count, ties in
\* first-seen order.
sortsBefore(a, b) ==
  \/ mapGet(colorMap, a) > mapGet(colorMap, b)
  \/ mapGet(colorMap, a) = mapGet(colorMap, b) /\ firstSeen(a) < firstSeen(b)

\* C18: `all` is a subsequence of the candidates sorted by descending count
\* with ties in first-seen order; the candidate that sorts first is
\* accepted; and a candidate is left out exactly when a colour accepted
\* before it is at a distance below 15 from it.
C18_GreedyPass ==
  phase = "done" =>
     LET keys == Range(mapKeys(colorMap))
     IN  /\ Range(allColors) \subseteq keys
         /\ \A i, j \in 1..Len(allColors) : i < j => sortsBefore(allColors[i], allColors[j])
         /\ \A k \in keys :
               (\A other \in keys \ { k } : sortsBefore(k, other)) => allColors[1] = k
         /\ \A k \in keys :
               k \notin Range(allColors) <=>
                  \E a \in Range(allColors) :
                     /\ sortsBefore(a, k)
                     /\ parses(a) /\ parses(k)
                     /\ DeltaETable[paletteIndex(a)][paletteIndex(k)] < 1500

\* C18 witness: #ff0101 was seen first and once, #ff0000 after it and more
\* often; #ff0000 is accepted first and #ff0101 dropped for it, and a colour
\* far from both is accepted after them.
C18_Witness ==
  /\ phase = "done"
  /\ Len(colorMap) = 3
  /\ colorMap[1].key = "#ff0101"
  /\ mapGet(colorMap, "#ff0000") = 2
  /\ Len(allColors) = 2
  /\ allColors[1] = "#ff0000"
  /\ "#ff0101" \notin Range(allColors)

(***************************************************************************)
(* Claims about normalizeFontFamily, under SpecNormalize.                  *)
(***************************************************************************)
\* s without its quotes, read from its end.
RECURSIVE unquoted(_)
unquoted(s) ==
  IF Len(s) = 0 THEN ""
  ELSE LET last == SubSeq(s, Len(s), Len(s))
           rest == unquoted(SubSeq(s, 1, Len(s) - 1))
       IN  IF last = "'" \/ last = "\"" THEN rest ELSE rest \o last

\* The first rule at or after rule k whose pattern occurs in low, 0 when none does.
RECURSIVE firstRule(_, _)
firstRule(low, k) ==
  IF k > Len(fontFamilyPatterns) THEN 0
  ELSE IF \E i \in 1..Len(low) :
            /\ i + Len(fontFamilyPatterns[k][1]) - 1 <= Len(low)
            /\ SubSeq(low, i, i + Len(fontFamilyPatterns[k][1]) - 1) = fontFamilyPatterns[k][1]
  THEN k
  ELSE firstRule(low, k + 1)

\* C19: the value returned is the family of the first rule, in the order of
\* the list, whose pattern occurs in the name once its quotes and the blanks
\* around it are removed, letter case ignored; Times New Roman wins over
\* Times and sans-serif over serif; a name no rule matches is returned
\* without its quotes and surrounding blanks and otherwise unchanged.
C19_FirstRuleWins ==
  phase = "done" =>
     LET stripped == trim(unquoted(rawFamily))
         rule     == firstRule(toLowerCase(stripped), 1)
     IN  /\ rule # 0 => normalFamily = fontFamilyPatterns[rule][2]
         /\ rule = 0 => normalFamily = stripped
         /\ includes(toLowerCase(rawFamily), "times new roman")
              => normalFamily = "Times New Roman, serif"
         /\ stripped \in {"sans-serif", "Sans-Serif"} => normalFamily = "sans-serif"
         /\ stripped = "serif" => normalFamily = "serif"
         /\ stripped = "Futura" => normalFamily = "Futura"
         /\ stripped = "Bobs Hand" => normalFamily = "Bobs Hand"

\* C19 witness: a quoted Times New Roman with blanks around it, which the
\* rules of Times New Roman, Times and serif all match, has been normalized.
C19_Witness ==
  /\ phase = "done"
  /\ rawFamily = " 'Times New Roman\" "
  /\ normalFamily = "Times New Roman, serif"

\* C19, further witnesses: a name no rule matches, and a name the rule of
\* Inter matches inside another word.
C19_WitnessUnmatched ==
  /\ phase = "done"
  /\ rawFamily = "\"Bob's Hand\" "
  /\ normalFamily = "Bobs Hand"

C19_WitnessInside ==
  /\ phase = "done"
  /\ rawFamily = "Printer Mono"
  /\ normalFamily = "Inter, sans-serif"

(***************************************************************************)
(* Claims about the framework votes of generateStyleGuide, under           *)
(* SpecGuide.                                                              *)
(***************************************************************************)
FrameworkNames == { "bootstrap", "tailwind", "foundation", "bulma", "materialize" }

\* The votes counted for a framework, and all votes counted.
votesFor(name) == mapGet(frameworkCounts(analyses), name)

RECURSIVE votesOfAll(_)
votesOfAll(names) ==
  IF names = {} THEN 0
  ELSE LET name == CHOOSE n \in names : TRUE
       IN  votesFor(name) + votesOfAll(names \ { name })

totalVotes == votesOfAll(FrameworkNames)

\* The analyses of the batch in which some framework has a confidence above 0.
withConfidence ==
  { i \in 1..Len(analyses) :
      \E k \in 1..Len(analyses[i].layout.frameworks) :
         analyses[i].layout.frameworks[k].confidence > 0 }

\* The analyses whose first framework of the highest confidence is name,
\* whatever that confidence.
topOf(name) ==
  { i \in 1..Len(analyses) :
      LET fs == analyses[i].layout.frameworks
      IN  \E k \in 1..Len(fs) :
             /\ fs[k].name = name
             /\ \A j \in 1..Len(fs) : fs[j].confidence <= fs[k].confidence
             /\ \A j \in 1..(k - 1) : fs[j].confidence < fs[k].confidence }

\* The analyses of the batch that come from analyzeWebsite: their layout
\* carries the five frameworks of the checklist in its order.
analysed ==
  { i \in 1..Len(analyses) :
      [ k \in 1..Len(analyses[i].layout.frameworks) |-> analyses[i].layout.frameworks[k].name ]
        = << "bootstrap", "tailwind", "foundation", "bulma", "materialize" >> }

\* C20 (as the claim states it): every analysis casts one vote, for the
\* first framework of its highest confidence, and there are as many votes
\* as analyses.
C20_OneVoteEach ==
  (phase = "done" /\ analysed = 1..Len(analyses)) =>
     /\ \A name \in FrameworkNames : votesFor(name) = Cardinality(topOf(name))
     /\ totalVotes = Len(analyses)

\* C20 amended: an analysis in which some framework has a confidence above
\* 0 casts exactly one vote, for the framework of the highest confidence,
\* the first in checklist order among equals; an analysis whose confidences
\* are all 0 casts none; there are as many votes as analyses with a
\* confidence above 0.
C20_OneVotePerDetection ==
  phase = "done" =>
     /\ \A name \in FrameworkNames : votesFor(name) = Cardinality(votersOf(name))
     /\ \A i \in withConfidence :
           Cardinality({ name \in FrameworkNames : i \in votersOf(name) }) = 1
     /\ \A i \in 1..Len(analyses) \ withConfidence :
           \A name \in FrameworkNames : i \notin votersOf(name)
     /\ totalVotes = Cardinality(withConfidence)

\* C20 witness: a batch of an analysis in which bulma and materialize share
\* the highest confidence, 14, and an analysis of a page without any match;
\* the one vote of the batch is for bulma.
C20_Witness ==
  /\ phase = "done"
  /\ Len(analyses) = 2
  /\ analysed = {1, 2}
  /\ withConfidence = {1}
  /\ \E k, j \in 1..5 :
        /\ analyses[1].layout.frameworks[k].name = "bulma"
        /\ analyses[1].layout.frameworks[j].name = "materialize"
        /\ analyses[1].layout.frameworks[k].confidence = 14
        /\ analyses[1].layout.frameworks[j].confidence = 14
  /\ votesFor("bulma") = 1
  /\ totalVotes = 1

(***************************************************************************)
(* Claims about the merge of generateStyleGuide, under SpecGuide.          *)
(***************************************************************************)
\* The place in the batch of the first vote for a framework: the place of
\* its name among the keys of frameworkCounts.
firstVote(name) == Min(votersOf(name))

\* The frameworks no other framework has more votes than.
mostVoted ==
  { name \in FrameworkNames :
      /\ votersOf(name) # {}
      /\ \A other \in FrameworkNames :
            Cardinality(votersOf(other)) <= Cardinality(votersOf(name)) }

\* C21: recommendedFramework has the most votes of the batch; when several
\* frameworks share the most votes, it is the one of them met first by the
\* scan of the tally, whose names are in the order of their first votes,
\* whatever the order of the votes; it is null when nobody voted.
C21_MostVotesFirstTallied ==
  (phase = "done" /\ guideCalls > 0) =>
     IF mostVoted = {} THEN recommended = "null"
     ELSE /\ recommended \in mostVoted
          /\ \A name \in mostVoted : firstVote(recommended) <= firstVote(name)

\* C21 witness: bootstrap, tailwind, tailwind, bootstrap; both have two
\* votes, tailwind had two first, bootstrap was voted for first and wins.
C21_Witness ==
  /\ phase = "done"
  /\ guideCalls > 0
  /\ votersOf("bootstrap") = {1, 4}
  /\ votersOf("tailwind") = {2, 3}
  /\ mostVoted = { "bootstrap", "tailwind" }
  /\ recommended = "bootstrap"

\* C21 witness of the other order: tailwind, bootstrap, bootstrap, tailwind.
C21_WitnessReversed ==
  /\ phase = "done"
  /\ guideCalls > 0
  /\ votersOf("tailwind") = {1, 4}
  /\ votersOf("bootstrap") = {2, 3}
  /\ recommended = "tailwind"

\* A colour category of every analysis of the batch, flattened.
flattened(category) ==
  Flatten([ i \in 1..Len(analyses) |-> analyses[i].colors[category] ])

\* The flattened `all` pool without its first n entries.
skipping(n) == SubSeq(flattened("all"), n + 1, Len(flattened("all")))

\* The entries of the flattened `all` pool that parse and have a luminance
\* above 0.8 or below 0.2.
extremes ==
  SelectSeq(flattened("all"),
            LAMBDA c : parses(c) /\ (luminance(c) > 8000 \/ luminance(c) < 2000))

selected(category) == styleGuide.colors.palette[category]

\* C22 (as the claim states it): a category is selected from its own
\* flattened pool when that is not empty, else from `all`: whole for primary
\* and neutral, without its first 3 entries for secondary, its first 6 for
\* accent.
C22_FallbackToAll ==
  (phase = "done" /\ guideCalls > 0) =>
     /\ firstRanked(IF flattened("primary") # <<>> THEN flattened("primary")
                    ELSE flattened("all"), selected("primary"), 3)
     /\ firstRanked(IF flattened("secondary") # <<>> THEN flattened("secondary")
                    ELSE skipping(3), selected("secondary"), 3)
     /\ firstRanked(IF flattened("accent") # <<>> THEN flattened("accent")
                    ELSE skipping(6), selected("accent"), 2)
     /\ firstRanked(IF flattened("neutral") # <<>> THEN flattened("neutral")
                    ELSE flattened("all"), selected("neutral"), 4)

\* C22 amended: as stated for primary, secondary and accent; the neutral
\* category, when its own pool is empty, is selected from the entries of
\* `all` that parse and have a luminance above 0.8 or below 0.2.
C22_FallbackToExtremes ==
  (phase = "done" /\ guideCalls > 0) =>
     /\ firstRanked(IF flattened("primary") # <<>> THEN flattened("primary")
                    ELSE flattened("all"), selected("primary"), 3)
     /\ firstRanked(IF flattened("secondary") # <<>> THEN flattened("secondary")
                    ELSE skipping(3), selected("secondary"), 3)
     /\ firstRanked(IF flattened("accent") # <<>> THEN flattened("accent")
                    ELSE skipping(6), selected("accent"), 2)
     /\ firstRanked(IF flattened("neutral") # <<>> THEN flattened("neutral")
                    ELSE extremes, selected("neutral"), 4)

\* C22 witness: no analysis of the batch has a neutral colour, `all` holds
\* colours of a middle luminance next to extreme ones, and only the extreme
\* ones are selected as neutral.
C22_Witness ==
  /\ phase = "done"
  /\ guideCalls > 0
  /\ flattened("neutral") = <<>>
  /\ extremes # <<>>
  /\ Range(extremes) # Range(flattened("all"))
  /\ selected("neutral") # <<>>
  /\ Range(selected("neutral")) \subseteq Range(extremes)

\* C22 witness of the fallbacks the claim has right: the accent pool is
\* empty and `all` has more than 6 entries, the seventh selected first.
C22_WitnessSkipped ==
  /\ phase = "done"
  /\ guideCalls > 0
  /\ flattened("accent") = <<>>
  /\ Len(flattened("all")) > 6
  /\ selected("accent") # <<>>
  /\ selected("accent")[1] = flattened("all")[7]

\* C22 witness of the primary fallback: no analysis has a primary colour,
\* `all` holds strings that do not parse, and they are selected.
C22_WitnessPrimary ==
  /\ phase = "done"
  /\ guideCalls > 0
  /\ flattened("primary") = <<>>
  /\ flattened("all") # <<>>
  /\ selected("primary") # <<>>
  /\ Range(selected("primary")) \subseteq Range(flattened("all"))

\* The ramps the guide carries for a category, and the keys of a ramp.
rampsOf(type) == SelectSeq(styleGuide.colors.shades, LAMBDA e : e.type = type)

keysOf(ramp) == [ k \in 1..Len(ramp) |-> ramp[k].shade ]

\* The declarations of the CSS variables that start with a prefix.
declarationsWith(prefix) ==
  SelectSeq(styleGuide.cssVariables, LAMBDA line : startsWith(line, prefix))

\* C23: no colour stops the synthesis: every call gets as far as the
\* documentation with its style guide assembled, and the error it ends with
\* there is the same whatever the colours are; in the guide assembled, a
\* category with a first colour has one ramp: the empty mapping when that
\* colour does not parse, with the palette and its CSS variables produced
\* all the same, and otherwise the keys 50, 100, 200, 300, 400, 500, 600,
\* 700, 800, 900 with the hex form of the colour at 500.
C23_RampOrEmpty ==
  phase = "done" =>
     /\ styleGuide # NotAssembled
     /\ ~guide.ok => guide.value.message = "asset is not defined"
     /\ guideCalls > 0 =>
           \A type \in { "primary", "secondary" } :
              selected(type) # << >> =>
                 /\ Len(rampsOf(type)) = 1
                 /\ Len(declarationsWith("--color-" \o type \o "-")) >=
                       Len(selected(type))
                 /\ IF parses(selected(type)[1])
                    THEN /\ keysOf(rampsOf(type)[1].shades) =
                               << "50", "100", "200", "300", "400", "500", "600", "700",
                                  "800", "900" >>
                         /\ rampsOf(type)[1].shades[6].color = canonical(selected(type)[1])
                         /\ Len(declarationsWith("--color-" \o type \o "-")) =
                               Len(selected(type)) + 10
                    ELSE /\ rampsOf(type)[1].shades = << >>
                         /\ Len(declarationsWith("--color-" \o type \o "-")) =
                               Len(selected(type))

\* C23 witness: the first primary colour of the guide is a reference that
\* does not parse; the guide is assembled with an empty primary ramp, its
\* palette and the CSS variables of the palette.
C23_Witness ==
  /\ phase = "done"
  /\ guideCalls > 0
  /\ selected("primary") # << >>
  /\ ~parses(selected("primary")[1])
  /\ Len(rampsOf("primary")) = 1
  /\ rampsOf("primary")[1].shades = << >>
  /\ Len(declarationsWith("--color-primary-")) = Len(selected("primary"))
  /\ Len(styleGuide.components) = Len(componentTypes)

\* C23 witness of a full ramp: red at 500, from #fff8f8 at 50 to #b60000 at 900.
C23_WitnessRamp ==
  /\ phase = "done"
  /\ guideCalls > 0
  /\ selected("primary") # << >>
  /\ selected("primary")[1] = "#ff0000"
  /\ rampsOf("primary")[1].shades[1] = [ shade |-> "50", color |-> "#fff8f8" ]
  /\ rampsOf("primary")[1].shades[6] = [ shade |-> "500", color |-> "#ff0000" ]
  /\ rampsOf("primary")[1].shades[10] = [ shade |-> "900", color |-> "#b60000" ]

(***************************************************************************)
(* Claims about the framework versions of analyzeLayout, under SpecLayout. *)
(***************************************************************************)
\* The comments of the page that name a framework and hold a v<major>.<minor>.
commentsNaming(frameworkName) ==
  { i \in 1..Len(doc) :
      /\ doc[i].tag = "#comment"
      /\ includes(toLowerCase(doc[i].attrs.nodeValue), frameworkName)
      /\ vVersionMatch(doc[i].attrs.nodeValue) # "" }

\* The stylesheet links of the page whose URL names a framework and holds
\* a version number.
linksNaming(frameworkName) ==
  { i \in 1..Len(doc) :
      /\ doc[i].tag = "link"
      /\ hasAttr(doc[i], "rel") /\ doc[i].attrs.rel = "stylesheet"
      /\ hasAttr(doc[i], "href")
      /\ includes(toLowerCase(doc[i].attrs.href), frameworkName)
      /\ versionMatch(doc[i].attrs.href) # "" }

\* C24: the version of a framework is the number of the last stylesheet
\* link that names it; without such a link it is the version of a comment
\* that names it; it is null when neither a link nor a comment does.
C24_LastSourceWins ==
  phase = "done" =>
     \A k \in 1..Len(layout.frameworks) :
        LET name  == layout.frameworks[k].name
            links == linksNaming(name)
            notes == commentsNaming(name)
            Max(S) == CHOOSE i \in S : \A j \in S : j <= i
        IN  layout.frameworks[k].version =
              IF links # {} THEN versionMatch(doc[Max(links)].attrs.href)
              ELSE IF notes # {} THEN vVersionMatch(doc[Min(notes)].attrs.nodeValue)
              ELSE NoVersion

\* The page the code and C24 part on: a comment naming bootstrap 4.5.2 and
\* no stylesheet link; the version of bootstrap stays null.
C24_FailingInput ==
  /\ phase = "done"
  /\ doc = << Elements[22] >>
  /\ commentsNaming("bootstrap") = {1}
  /\ linksNaming("bootstrap") = {}
  /\ layout.frameworks[1].name = "bootstrap"
  /\ layout.frameworks[1].version = NoVersion

\* C25: a call of generateStyleGuide leaves the batch as it was: every
\* analysis keeps its colors, typography, components and layout, and gains
\* no field.
C25_InputsUnchanged ==
  [][ /\ Len(analyses') = Len(analyses)
      /\ \A i \in 1..Len(analyses) :
            /\ DOMAIN analyses'[i] = DOMAIN analyses[i]
            /\ DOMAIN analyses'[i].colors = DOMAIN analyses[i].colors
            /\ analyses'[i].colors = analyses[i].colors
            /\ analyses'[i].typography = analyses[i].typography
            /\ analyses'[i].components = analyses[i].components
            /\ analyses'[i].layout = analyses[i].layout ]_vars

\* C25 witness: a guide made from two analyses whose merged primary colours
\* are not those of the first analysis, with a primary ramp; the analysis
\* carries the five colour lists it was made with and nothing else.
C25_Witness ==
  /\ phase = "done"
  /\ guideCalls > 0
  /\ Len(analyses) = 2
  /\ selected("primary") # analyses[1].colors.primary
  /\ analyses[1].colors.primary # << >>
  /\ Len(rampsOf("primary")) = 1
  /\ Len(rampsOf("primary")[1].shades) = 10
  /\ DOMAIN analyses[1].colors = { "primary", "secondary", "accent", "neutral", "all" }

\* The {value, count} entries of a typography list of every analysis.
entriesOf(list) ==
  Flatten([ i \in 1..Len(analyses) |-> analyses[i].typography[list] ])

\* The sum of the counts of the entries that carry a value, and the place
\* of the first of them.
summedCount(items, value) ==
  sum([ k \in 1..Len(items) |-> IF items[k].value = value THEN items[k].count ELSE 0 ])

firstEntry(items, value) == Min({ k \in 1..Len(items) : items[k].value = value })

\* A value comes before another: a greater summed count, or the same and
\* met first.
sumsBefore(items, a, b) ==
  \/ summedCount(items, a) > summedCount(items, b)
  \/ /\ summedCount(items, a) = summedCount(items, b)
     /\ firstEntry(items, a) < firstEntry(items, b)

\* out is the first n distinct values of items by summed count, each with
\* its sum.
summedAndRanked(items, out, n) ==
  LET values == { items[k].value : k \in 1..Len(items) }
      chosen == { out[k].value : k \in 1..Len(out) }
  IN  /\ Len(out) = IF Cardinality(values) < n THEN Cardinality(values) ELSE n
      /\ chosen \subseteq values
      /\ \A k \in 1..Len(out) : out[k].count = summedCount(items, out[k].value)
      /\ \A i, j \in 1..Len(out) : i < j => sumsBefore(items, out[i].value, out[j].value)
      /\ \A v \in values \ chosen : \A i \in 1..Len(out) : sumsBefore(items, out[i].value, v)

MergedLists == { "fontFamilies", "fontWeights", "letterSpacings", "textTransforms" }

\* C26: a merged typography list holds, for the 3 values of the greatest
\* summed count over the entries of all analyses (every count at least 1),
\* the value with the sum of the counts of its entries, in descending order
\* of the sums, equal sums in the order in which the values are first met.
C26_SummedCounts ==
  (phase = "done" /\ guideCalls > 0) =>
     \A list \in MergedLists :
        (\A k \in 1..Len(entriesOf(list)) : entriesOf(list)[k].count >= 1) =>
           summedAndRanked(entriesOf(list), styleGuide.typography[list], 3)

\* C26 witness: the font families of two analyses, 5 of them distinct;
\* Arial has 2 and 3 and Lato 1 and 4, and the guide keeps Roboto, Arial
\* and Lato with 5 each, in the order in which they are first met.
C26_Witness ==
  /\ phase = "done"
  /\ guideCalls > 0
  /\ analyses = SubSeq(ScenarioF, 1, 2)
  /\ Len(entriesOf("fontFamilies")) = 7
  /\ summedCount(entriesOf("fontFamilies"), "Arial, sans-serif") = 5
  /\ styleGuide.typography.fontFamilies =
        << [ value |-> "Roboto, sans-serif", count |-> 5 ],
           [ value |-> "Arial, sans-serif", count |-> 5 ],
           [ value |-> "Lato, sans-serif", count |-> 5 ] >>

\* C26 witness of the bound on the counts: an entry of count 0 is kept
\* with the count 1.
C26_WitnessZero ==
  /\ phase = "done"
  /\ guideCalls > 0
  /\ analyses = << ScenarioF[3] >>
  /\ styleGuide.typography.fontFamilies =
        << [ value |-> "Courier New, monospace", count |-> 1 ] >>

(***************************************************************************)
(* Claims about a second normalizeFontFamily, under SpecNormalize.         *)
(***************************************************************************)
\* C27: normalizeFontFamily applied to a value it returned, the family of
\* a rule or a name no rule matches, returns that value.
C27_Idempotent ==
  phase = "twice" => normalFamily = rawFamily

\* The call the code and C27 part on: Helvetica Neue was normalized to
\* Helvetica, Arial, sans-serif, and that value, which holds arial, to
\* Arial, sans-serif.
C27_FailingInput ==
  /\ phase = "twice"
  /\ rawFamily = "Helvetica, Arial, sans-serif"
  /\ normalFamily = "Arial, sans-serif"

(***************************************************************************)
(* Claims about pushDesign, under SpecPush.                                *)
(***************************************************************************)
\* The items of the call: those each schema of the configuration was mapped
\* to when the loop reached it.
itemsOfCall == push.items

\* The entries of the three lists as schema and content, and the number
\* of times a schema and content occur in a list.
recorded ==
  [ k \in 1..Len(push.results.created) |->
      [ schema |-> push.results.created[k].schema, data |-> push.results.created[k].data ] ]
  \o [ k \in 1..Len(push.results.updated) |->
      [ schema |-> push.results.updated[k].schema, data |-> push.results.updated[k].data ] ]
  \o [ k \in 1..Len(push.results.failed) |->
      [ schema |-> push.results.failed[k].schema,
        data |-> contentData(push.results.failed[k].data) ] ]

timesIn(list, e) == Cardinality({ k \in 1..Len(list) : list[k] = e })

contents ==
  [ k \in 1..Len(itemsOfCall) |->
      [ schema |-> itemsOfCall[k].schema, data |-> contentData(itemsOfCall[k].data) ] ]

\* C28: when pushDesign returns, every schema of the configuration has been
\* mapped and the three lists together hold every item of every schema once
\* and nothing else; errors holds the error of every failed item, in order;
\* success is true exactly when failed is empty.
C28_EveryItemAccounted ==
  push.pc = "returned" =>
     /\ push.schema = Len(push.mappingConfig)
     /\ Len(recorded) = Len(itemsOfCall)
     /\ \A e \in Range(contents) \cup Range(recorded) :
           timesIn(recorded, e) = timesIn(contents, e)
     /\ push.results.errors =
           [ k \in 1..Len(push.results.failed) |-> push.results.failed[k].error ]
     /\ push.results.success = (push.results.failed = << >>)

\* C28 witness: the first of three items failed, the second was updated
\* and the third created; success is false and errors has one entry.
C28_Witness ==
  /\ push.pc = "returned"
  /\ Len(itemsOfCall) = 3
  /\ Len(push.results.failed) = 1
  /\ push.results.failed[1].schema = itemsOfCall[1].schema
  /\ Len(push.results.created) + Len(push.results.updated) = 2
  /\ push.results.success = FALSE
  /\ Len(push.results.errors) = 1

\* C28 witness of a call that was given no button: a callback added two
\* while the style guide was being created, and all three items were.
C28_WitnessChanged ==
  /\ push.pc = "returned"
  /\ push.designData.buttons = 2
  /\ Len(push.mappingConfig) = 2
  /\ push.mappingConfig[2].name = "buttons"
  /\ Len(push.results.created) = 3
  /\ push.client = "mock"

\* C28 witness of a push without failure.
C28_WitnessSuccess ==
  /\ push.pc = "returned"
  /\ Len(itemsOfCall) = 2
  /\ Len(push.results.updated) = 1
  /\ Len(push.results.created) = 1
  /\ push.results.success = TRUE
  /\ push.results.errors = << >>

(***************************************************************************)
(* Claims about analyzeSite, under SpecSite.                               *)
(***************************************************************************)
\* C29: a browser that was launched gets its close() called, and no call
\* of analyzeSite has settled while a browser it launched has not.
C29_BrowserClosed ==
  /\ [](site.pc = "idle" => site.closed = site.launched)
  /\ ((site.launched > site.closed) ~> (site.closed = site.launched))

\* C29 witness: a call that threw the navigation timeout and a call that
\* returned, each after the close() of its browser.
C29_Witness ==
  /\ site.pc = "idle"
  /\ Len(site.settled) = 2
  /\ site.settled[1] = [ ok |-> FALSE, value |-> "Navigation timeout of 60000 ms exceeded" ]
  /\ site.settled[2].ok
  /\ site.launched = 2
  /\ site.closed = 2

(***************************************************************************)
(* Claims about the download route, under SpecServer.                      *)
(***************************************************************************)
\* A path of a file or directory placed directly in /tmp.
childOfTmp(path) ==
  /\ startsWith(path, "/tmp/")
  /\ Len(path) > 5
  /\ ~includes(SubSeq(path, 6, Len(path)), "/")

\* What C30 says of a request the handler was entered for.
C30_Handler ==
  /\ (includes(req.filename, "..") \/ includes(req.filename, "/"))
        => (response.status = 400 /\ accessed = << >>)
  /\ \A k \in 1..Len(accessed) : childOfTmp(accessed[k].path)

\* C30: a request that reaches the download handler with a name holding
\* '..' or '/' is answered 400 without a call of fs, and every path the
\* handler hands to fs is a direct child of /tmp, while the handler runs,
\* while its stream is read and after.
C30_OnlyChildrenOfTmp ==
  req.route = "download-docs" =>
     /\ (handlerCalls = 0) => accessed = << >>
     /\ (handlerCalls = 1) => C30_Handler

\* The request the code and C30 part on: the name "." passes the check,
\* path.join gives /tmp itself, and the directory is opened for reading;
\* the read has failed and ended the process without an answer.
C30_FailingInput ==
  /\ phase = "exited"
  /\ response = NoResponse
  /\ req.route = "download-docs"
  /\ req.filename = "."
  /\ handlerCalls = 1
  /\ accessed = << [ call |-> "existsSync", path |-> "/tmp" ],
                   [ call |-> "createReadStream", path |-> "/tmp" ] >>

====
